---------------------------- MODULE Spec2Model ----------------------------
(***************************************************************************)
(* A model of tinygrad's block linearizer (tinygrad/codegen/linearize.py): *)
(* get_ranges_in_parents, append_to_block, block_uop and the priority      *)
(* queue scheduler of linearize_uop.                                       *)
(*                                                                         *)
(* A UOp is a record [op, arg, src, rngs, lst].  UOps are immutable and    *)
(* compared structurally, so a TLA+ value is the node itself.  For an      *)
(* Ops.BLOCK node the fields rngs and lst hold its BasicBlock argument;    *)
(* for every other node they are empty and arg is an integer.              *)
(***************************************************************************)
EXTENDS Integers, Sequences, FiniteSets, TLC

VARIABLES
  sink,        \* the node linearize_uop was called with
  pc,          \* position in linearize_uop
  err,         \* the exception that ended the call ("" when none)
  sink_bb,     \* block_uop's `sink`: the graph being rewritten into blocks
  children,    \* the children dict of the running phase (node -> consumers)
  forks,       \* block_uop's `forks`
  memo,        \* the lru_cache of get_ranges_in_parents (module level)
  in_degree,   \* the scheduler's in_degree dict
  queue,       \* the heapq list (nodes; priority and tuplize are derived)
  uops,        \* _uops
  open_loops,  \* open_loops
  ret,         \* the list linearize_uop returned (<<>> before it returns)
  calls,       \* number of linearize_uop calls started on this graph
  first,       \* how the first call on this graph ended: [pc, err, ret]
  device,      \* Device.DEFAULT
  fxn,         \* TinyJit.fxn: the kernels the wrapped function launches
  cnt,         \* TinyJit.cnt
  jit_fxn,     \* TinyJit.jit_fxn: None or the BatchExecutor
  self_ret,    \* TinyJit.ret
  expected_vals,       \* TinyJit.expected_vals
  expected_sts_dtype,  \* TinyJit.expected_sts_dtype
  jpc,         \* position in TinyJit.__call__ ("idle" between calls)
  args,        \* the arguments of the running (or last) TinyJit call
  launched,    \* what the running (or last) TinyJit call executed, in order
  jerr,        \* the exception that ended the last TinyJit call ("" when none)
  jit_calls,   \* number of TinyJit calls started
  returned     \* number of TinyJit calls that returned

\* the state of the linearizer
lvars == <<sink, pc, err, sink_bb, children, forks, memo, in_degree,
           queue, uops, open_loops, ret, calls, first>>

\* the state of the TinyJit object and of the call running on it
jvars == <<device, fxn, cnt, jit_fxn, self_ret, expected_vals,
           expected_sts_dtype, jpc, args, launched, jerr, jit_calls, returned>>

vars == <<lvars, jvars>>

-----------------------------------------------------------------------------
(* Bounds of the model *)

\* number of STOREs under the SINK
MaxStores == 2
\* number of linearize_uop calls on one graph
MaxCalls == 2

-----------------------------------------------------------------------------
(* UOp construction (tinygrad.ops.UOp) *)

UOp(op, arg, src) == [op |-> op, arg |-> arg, src |-> src, rngs |-> <<>>, lst |-> <<>>]

\* UOp(Ops.BLOCK, dtypes.void, src, BasicBlock(rngs, lst))
BLOCK(src, rngs, lst) == [op |-> "BLOCK", arg |-> 0, src |-> src, rngs |-> rngs, lst |-> lst]

\* Ops is an enum; tuplize orders nodes by op.value first
OpValue(op) ==
  CASE op = "SINK" -> 1
    [] op = "BLOCK" -> 2
    [] op = "DEFINE_GLOBAL" -> 3
    [] op = "DEFINE_VAR" -> 4
    [] op = "DEFINE_ACC" -> 5
    [] op = "SPECIAL" -> 6
    [] op = "LOAD" -> 7
    [] op = "STORE" -> 8
    [] op = "INDEX" -> 9
    [] op = "ALU" -> 10
    [] op = "ASSIGN" -> 11
    [] op = "RANGE" -> 12
    [] op = "IF" -> 13
    [] op = "ENDRANGE" -> 14
    [] op = "ENDIF" -> 15
    [] op = "CONST" -> 16

-----------------------------------------------------------------------------
(* helpers (tinygrad.helpers) *)

InSeq(x, s) == \E i \in DOMAIN s : s[i] = x

RECURSIVE dedup(_)
dedup(s) ==
  IF s = <<>> THEN <<>>
  ELSE LET d == dedup(SubSeq(s, 1, Len(s) - 1))
       IN IF InSeq(s[Len(s)], d) THEN d ELSE Append(d, s[Len(s)])

RECURSIVE flatten(_)
flatten(l) == IF l = <<>> THEN <<>> ELSE Head(l) \o flatten(Tail(l))

-----------------------------------------------------------------------------
(* UOp.tuplize and BasicBlock ordering *)

RECURSIVE tuplize_lt(_, _)
RECURSIVE tuple_lt(_, _)

\* Python's tuple comparison on tuples of tuplize values: the first position
\* where the elements differ decides; a proper prefix is smaller.
tuple_lt(s, t) ==
  LET n == IF Len(s) < Len(t) THEN Len(s) ELSE Len(t)
      D == {i \in 1..n : s[i] # t[i]}
  IN IF D = {} THEN Len(s) < Len(t)
     ELSE LET d == CHOOSE i \in D : \A j \in D : i <= j
          IN tuplize_lt(s[d], t[d])

\* BasicBlock.__eq__
BasicBlock_eq(a, b) == a.rngs = b.rngs /\ a.lst = b.lst

\* a faulty __lt__: blocks with equal scope sets are ordered by something
\* that is not part of the graph (here: which call is running)
BasicBlock_lt_by_call(a, b) ==
  IF a.rngs = b.rngs THEN calls = 2
  ELSE tuple_lt(a.rngs, b.rngs)

\* a faulty __lt__: the scope sets are ordered by their lengths
BasicBlock_lt_by_length(a, b) ==
  IF a.rngs = b.rngs THEN FALSE
  ELSE Len(a.rngs) < Len(b.rngs)

\* BasicBlock.__lt__
BasicBlock_lt(a, b) ==
  IF a.rngs = b.rngs THEN FALSE
  ELSE tuple_lt(a.rngs, b.rngs)

\* a.tuplize < b.tuplize, tuplize being (op.value, arg, dtype, src tuplize)
tuplize_lt(a, b) ==
  IF OpValue(a.op) # OpValue(b.op) THEN OpValue(a.op) < OpValue(b.op)
  ELSE IF a.op = "BLOCK"
       THEN IF ~BasicBlock_eq(a, b) THEN BasicBlock_lt(a, b)
            ELSE tuple_lt(a.src, b.src)
       ELSE IF a.arg # b.arg THEN a.arg < b.arg
            ELSE tuple_lt(a.src, b.src)

\* a faulty add: the new members go after the old ones
BasicBlock_add_appends(x, to_append) ==
  IF Len(to_append) = 0 THEN [rngs |-> x.rngs, lst |-> x.lst]
  ELSE [rngs |-> x.rngs, lst |-> x.lst \o to_append]

\* a faulty add: the block that gets new members loses its scope set
BasicBlock_add_rescoped(x, to_append) ==
  IF Len(to_append) = 0 THEN [rngs |-> x.rngs, lst |-> x.lst]
  ELSE [rngs |-> <<>>, lst |-> to_append \o x.lst]

\* BasicBlock.add, on the BLOCK node that carries the BasicBlock
BasicBlock_add(x, to_append) ==
  IF Len(to_append) = 0 THEN [rngs |-> x.rngs, lst |-> x.lst]
  ELSE [rngs |-> x.rngs, lst |-> to_append \o x.lst]

\* a faulty sort: the order of arrival is kept
sorted_as_found(s) == s

\* sorted(s, key=lambda x: x.tuplize): a stable insertion sort
RECURSIVE sorted(_)
sorted(s) ==
  IF s = <<>> THEN <<>>
  ELSE LET r == sorted(SubSeq(s, 1, Len(s) - 1))
           x == s[Len(s)]
           \* x goes after the last element that is not greater than it
           P == {i \in 1..Len(r) : ~tuplize_lt(x, r[i])}
           k == IF P = {} THEN 0 ELSE CHOOSE i \in P : \A j \in P : j <= i
       IN SubSeq(r, 1, k) \o <<x>> \o SubSeq(r, k + 1, Len(r))

-----------------------------------------------------------------------------
(* get_ranges_in_parents, with its lru_cache *)

EmptyDict == [x \in {} |-> <<>>]

\* a faulty ASSIGN rule: no range is removed
acc_ranges_none(u) == <<>>

\* u.src[0].src[1:] of an ASSIGN u: the ranges bound to its accumulator
acc_ranges(u) == SubSeq(u.src[1].src, 2, Len(u.src[1].src))

RECURSIVE get_ranges_in_parents(_, _)
RECURSIVE grip_loop(_, _, _, _)
RECURSIVE grip_loop_faulty(_, _, _, _, _)

\* Faulty loops, by fault f: "scope_only" does not go into a RANGE or IF
\* operand, "through_store" goes into a STORE operand, "whole_assign" treats
\* an ASSIGN operand as any other operand
grip_loop_faulty(x, i, r, m, f) ==
  IF i > Len(x.src) THEN [ret |-> r, memo |-> m, ok |-> TRUE]
  ELSE LET u == x.src[i]
           r1 == IF u.op \in {"RANGE", "IF"} THEN Append(r, u) ELSE r
       IN IF (u.op = "STORE" /\ f # "through_store")
             \/ (u.op \in {"RANGE", "IF"} /\ f = "scope_only")
          THEN grip_loop_faulty(x, i + 1, r1, m, f)
          ELSE IF u.op = "ASSIGN" /\ f # "whole_assign"
          THEN IF u.src[1].op # "DEFINE_ACC" THEN [ret |-> r1, memo |-> m, ok |-> FALSE]
               ELSE LET g == get_ranges_in_parents(u.src[2], m)
                        kept == SelectSeq(g.ret, LAMBDA y : ~InSeq(y, acc_ranges(u)))
                    IN IF ~g.ok THEN g
                       ELSE grip_loop_faulty(x, i + 1, r1 \o kept, g.memo, f)
          ELSE LET g == get_ranges_in_parents(u, m)
               IN IF ~g.ok THEN g
                  ELSE grip_loop_faulty(x, i + 1, r1 \o g.ret, g.memo, f)

grip_loop_scope_only(x, i, r, m) == grip_loop_faulty(x, i, r, m, "scope_only")
grip_loop_through_store(x, i, r, m) == grip_loop_faulty(x, i, r, m, "through_store")
grip_loop_whole_assign(x, i, r, m) == grip_loop_faulty(x, i, r, m, "whole_assign")


\* The body's loop over x.src from operand i on; r is `ret` (flattened), m the
\* cache.  Returns [ret, memo, ok]; ok is FALSE once the assert on an
\* ASSIGN's first operand has failed.
grip_loop(x, i, r, m) ==
  IF i > Len(x.src) THEN [ret |-> r, memo |-> m, ok |-> TRUE]
  ELSE LET u == x.src[i]
           r1 == IF u.op \in {"RANGE", "IF"} THEN Append(r, u) ELSE r
       IN IF u.op = "STORE" THEN grip_loop(x, i + 1, r1, m)
          ELSE IF u.op = "ASSIGN"
          THEN IF u.src[1].op # "DEFINE_ACC" THEN [ret |-> r1, memo |-> m, ok |-> FALSE]
               ELSE LET g == get_ranges_in_parents(u.src[2], m)
                        kept == SelectSeq(g.ret, LAMBDA y : ~InSeq(y, acc_ranges(u)))
                    IN IF ~g.ok THEN g
                       ELSE grip_loop(x, i + 1, r1 \o kept, g.memo)
          ELSE LET g == get_ranges_in_parents(u, m)
               IN IF ~g.ok THEN g
                  ELSE grip_loop(x, i + 1, r1 \o g.ret, g.memo)

\* a faulty cache: a miss stores the scopes as they were found, not the
\* tuple it returns
get_ranges_in_parents_stale(x, m) ==
  IF x \in DOMAIN m THEN [ret |-> m[x], memo |-> m, ok |-> TRUE]
  ELSE LET g == grip_loop(x, 1, <<>>, m)
       IN IF ~g.ok THEN g
          ELSE [ret |-> dedup(sorted(g.ret)), memo |-> g.memo @@ (x :> g.ret), ok |-> TRUE]

\* A cache hit returns the stored tuple; a miss computes it and stores it.
get_ranges_in_parents(x, m) ==
  IF x \in DOMAIN m THEN [ret |-> m[x], memo |-> m, ok |-> TRUE]
  ELSE LET g == grip_loop(x, 1, <<>>, m)
           res == dedup(sorted(g.ret))
       IN IF ~g.ok THEN g
          ELSE [ret |-> res, memo |-> g.memo @@ (x :> res), ok |-> TRUE]

-----------------------------------------------------------------------------
(* get_children_dfs *)

RECURSIVE get_children_dfs(_, _)
RECURSIVE dfs_loop(_, _, _)

\* st = [keys, children, in_degree]: keys is the insertion order of the
\* children dict.  The range_srcs dict the code also fills is never read.
dfs_loop(u, i, st) ==
  IF i > Len(u.src) THEN [st EXCEPT !.in_degree = @ @@ (u :> Len(u.src))]
  ELSE LET x == u.src[i]
           s2 == get_children_dfs(x, st)
       IN dfs_loop(u, i + 1, [s2 EXCEPT !.children[x] = Append(@, u)])

get_children_dfs(u, st) ==
  IF u \in DOMAIN st.children THEN st
  ELSE dfs_loop(u, 1, [st EXCEPT !.keys = Append(@, u),
                                 !.children = @ @@ (u :> <<>>)])

EmptyDfs == [keys |-> <<>>, children |-> EmptyDict, in_degree |-> [x \in {} |-> 0]]

-----------------------------------------------------------------------------
(* append_to_block and the make_basic_blocks rewrite *)

\* a faulty set: RANGE may be placed
DONT_PLACE_IN_BLOCK_but_RANGE == {"CONST", "DEFINE_ACC", "DEFINE_GLOBAL", "DEFINE_VAR", "SPECIAL"}

DONT_PLACE_IN_BLOCK == {"RANGE", "CONST", "DEFINE_ACC", "DEFINE_GLOBAL", "DEFINE_VAR", "SPECIAL"}

\* a faulty new_blocks: one list for every key
new_blocks_append_any(nb, key, u) ==
  IF nb # <<>>
  THEN [i \in DOMAIN nb |-> IF i = 1
                            THEN [rng |-> nb[1].rng, lst |-> Append(nb[1].lst, u)]
                            ELSE nb[i]]
  ELSE Append(nb, [rng |-> key, lst |-> <<u>>])

\* new_blocks[key].append(u) on an insertion-ordered defaultdict, kept as a
\* sequence of [rng, lst] entries
new_blocks_append(nb, key, u) ==
  IF \E i \in DOMAIN nb : nb[i].rng = key
  THEN [i \in DOMAIN nb |-> IF nb[i].rng = key
                            THEN [rng |-> key, lst |-> Append(nb[i].lst, u)]
                            ELSE nb[i]]
  ELSE Append(nb, [rng |-> key, lst |-> <<u>>])

new_blocks_get(nb, key) ==
  IF \E i \in DOMAIN nb : nb[i].rng = key
  THEN (nb[CHOOSE i \in DOMAIN nb : nb[i].rng = key]).lst
  ELSE <<>>

\* a faulty test: no input is ever held back
has_outside_children_never(ch, fk, x, u) == FALSE

\* u has a consumer that is not in the block, and u is not a fork
has_outside_children(ch, fk, x, u) ==
  (\E i \in DOMAIN ch[u] : ~InSeq(ch[u][i], x.lst)) /\ u \notin fk

RECURSIVE atb_loop(_, _, _, _, _)
\* the loop over x.src; st = [new_srcs, to_append, new_blocks, updated, memo, ok]
atb_loop(ch, fk, x, i, st) ==
  IF i > Len(x.src) THEN st
  ELSE LET u == x.src[i] IN
    IF u.op = "BLOCK"
    THEN atb_loop(ch, fk, x, i + 1,
           [st EXCEPT !.updated = @ \/ Len(new_blocks_get(st.new_blocks, u.rngs)) > 0,
                      !.new_blocks = new_blocks_append(@, u.rngs, u)])
    ELSE IF u.op \in DONT_PLACE_IN_BLOCK \/ has_outside_children(ch, fk, x, u)
    THEN atb_loop(ch, fk, x, i + 1, [st EXCEPT !.new_srcs = Append(@, u)])
    ELSE LET g == get_ranges_in_parents(u, st.memo) IN
      IF ~g.ok THEN [st EXCEPT !.ok = FALSE, !.memo = g.memo]
      ELSE IF g.ret = x.rngs
      THEN atb_loop(ch, fk, x, i + 1,
             [st EXCEPT !.updated = TRUE, !.memo = g.memo,
                        !.new_srcs = @ \o u.src,
                        !.to_append = Append(@, u)])
      ELSE atb_loop(ch, fk, x, i + 1,
             [st EXCEPT !.updated = TRUE, !.memo = g.memo,
                        !.new_blocks = new_blocks_append(@, g.ret, u)])

\* a faulty materialize: the new BLOCK loses its scope set
materialize_untagged(e) ==
  IF Len(e.lst) = 1 /\ e.lst[1].op = "BLOCK" THEN e.lst[1]
  ELSE BLOCK(dedup(flatten([k \in DOMAIN e.lst |-> e.lst[k].src])), <<>>,
             flatten([k \in DOMAIN e.lst |->
                        IF e.lst[k].op = "BLOCK" THEN e.lst[k].lst ELSE <<e.lst[k]>>]))

\* a faulty materialize: a nested block that is already there is kept as
\* it is, without what was routed to its key
materialize_unmerged(e) ==
  IF \E k \in DOMAIN e.lst : e.lst[k].op = "BLOCK"
  THEN e.lst[CHOOSE k \in DOMAIN e.lst : e.lst[k].op = "BLOCK"]
  ELSE BLOCK(dedup(flatten([k \in DOMAIN e.lst |-> e.lst[k].src])), e.rng,
             flatten([k \in DOMAIN e.lst |-> <<e.lst[k]>>]))

\* one entry of new_blocks turned into the BLOCK that becomes a source
materialize(e) ==
  IF Len(e.lst) = 1 /\ e.lst[1].op = "BLOCK" THEN e.lst[1]
  ELSE LET new_lst == flatten([k \in DOMAIN e.lst |->
                         IF e.lst[k].op = "BLOCK" THEN e.lst[k].lst ELSE <<e.lst[k]>>])
           srcs == dedup(flatten([k \in DOMAIN e.lst |-> e.lst[k].src]))
       IN BLOCK(srcs, e.rng, new_lst)

\* UOp(Ops.BLOCK, dtypes.void, src, bb) for a BasicBlock bb
BLOCK_arg(src, bb) == BLOCK(src, bb.rngs, bb.lst)

\* the end of append_to_block: `return None` when nothing was updated, else
\* the new BLOCK over the kept sources and the materialized new_blocks
atb_return(x, st) ==
  [updated |-> st.updated, memo |-> st.memo, ok |-> st.ok,
   node |-> IF st.updated
            THEN BLOCK_arg(dedup(st.new_srcs \o
                             [k \in DOMAIN st.new_blocks |-> materialize(st.new_blocks[k])]),
                           BasicBlock_add(x, st.to_append))
            ELSE x]

\* append_to_block(ctx, x) with ctx = (ch, fk).  Returns
\* [updated, node, memo, ok]; updated = FALSE is the code's `return None`.
append_to_block(ch, fk, x, m) ==
  atb_return(x, atb_loop(ch, fk, x, 1,
                  [new_srcs |-> <<>>, to_append |-> <<>>, new_blocks |-> <<>>,
                   updated |-> FALSE, memo |-> m, ok |-> TRUE]))

\* graph_rewrite(sink, make_basic_blocks, ctx) rewrites bottom-up: the sources
\* of a node first, then the node, then the result again.  rewrite_once does
\* the next single rule application in that order: in the first source (left
\* to right) that still changes, else at the node itself.
RECURSIVE rewrite_once(_, _, _, _)
RECURSIVE rewrite_srcs(_, _, _, _, _)

\* r is the outcome of rewriting source i of n
rewrite_src(ch, fk, n, i, r) ==
  IF ~r.ok THEN r
  ELSE IF r.updated THEN [r EXCEPT !.node = [n EXCEPT !.src[i] = r.node]]
  ELSE rewrite_srcs(ch, fk, n, i + 1, r.memo)

rewrite_srcs(ch, fk, n, i, m) ==
  IF i > Len(n.src) THEN [updated |-> FALSE, node |-> n, memo |-> m, ok |-> TRUE]
  ELSE rewrite_src(ch, fk, n, i, rewrite_once(ch, fk, n.src[i], m))

\* r is the outcome of rewriting the sources of the BLOCK n
rewrite_block(ch, fk, n, r) ==
  IF ~r.ok \/ r.updated THEN r ELSE append_to_block(ch, fk, n, r.memo)

rewrite_once(ch, fk, n, m) ==
  IF n.op = "SINK"
  THEN [updated |-> TRUE, node |-> BLOCK(n.src, <<>>, <<n>>), memo |-> m, ok |-> TRUE]
  ELSE IF n.op = "BLOCK"
  THEN rewrite_block(ch, fk, n, rewrite_srcs(ch, fk, n, 1, m))
  ELSE [updated |-> FALSE, node |-> n, memo |-> m, ok |-> TRUE]

\* sink.sparents: the node and everything it reaches
RECURSIVE sparents(_)
sparents(n) == {n} \cup UNION {sparents(n.src[i]) : i \in DOMAIN n.src}

\* the scan of block_uop for sources that are neither BLOCK nor a leaf kind
find_forks(n) ==
  {u \in UNION {{b.src[i] : i \in DOMAIN b.src} : b \in {b \in sparents(n) : b.op = "BLOCK"}} :
     u.op # "BLOCK" /\ u.op \notin DONT_PLACE_IN_BLOCK}

-----------------------------------------------------------------------------
(* the scheduler's queue: heapq over (priority, tuplize, node) *)

\* a faulty priority: the same for every node
priority_flat(u) == 0

\* push's priority p: -10 for a CONST, 0 for everything else
priority(u) == IF u.op = "CONST" THEN 0 - 10 ELSE 0

\* (p, a.tuplize, a) < (p', b.tuplize, b)
item_lt(a, b) ==
  IF priority(a) # priority(b) THEN priority(a) < priority(b)
  ELSE IF a # b THEN tuplize_lt(a, b)
  ELSE FALSE

\* heapq._siftdown; positions are Python's (0-based)
RECURSIVE siftdown(_, _, _, _)
siftdown(heap, startpos, pos, newitem) ==
  IF pos > startpos
  THEN LET parentpos == (pos - 1) \div 2
           parent == heap[parentpos + 1]
       IN IF item_lt(newitem, parent)
          THEN siftdown([heap EXCEPT ![pos + 1] = parent], startpos, parentpos, newitem)
          ELSE [heap EXCEPT ![pos + 1] = newitem]
  ELSE [heap EXCEPT ![pos + 1] = newitem]

\* heapq._siftup
RECURSIVE siftup(_, _, _, _)
siftup(heap, startpos, pos, newitem) ==
  LET endpos == Len(heap)
      leftpos == 2 * pos + 1
      rightpos == leftpos + 1
      childpos == IF rightpos < endpos /\ ~item_lt(heap[leftpos + 1], heap[rightpos + 1])
                  THEN rightpos ELSE leftpos
  IN IF leftpos < endpos
     THEN siftup([heap EXCEPT ![pos + 1] = heap[childpos + 1]], startpos, childpos, newitem)
     ELSE siftdown([heap EXCEPT ![pos + 1] = newitem], startpos, pos, newitem)

\* heapq.heappush(queue, (p, u.tuplize, u))
push(heap, u) == siftdown(Append(heap, u), 0, Len(heap), u)

\* heapq.heappop(queue): [item, heap]
heappop(heap) ==
  LET lastelt == heap[Len(heap)]
      rest == SubSeq(heap, 1, Len(heap) - 1)
  IN IF rest = <<>> THEN [item |-> lastelt, heap |-> rest]
     ELSE [item |-> rest[1], heap |-> siftup([rest EXCEPT ![1] = lastelt], 0, 0, lastelt)]

RECURSIVE push_all(_, _)
push_all(heap, us) == IF us = <<>> THEN heap ELSE push_all(push(heap, Head(us)), Tail(us))

-----------------------------------------------------------------------------
(* one iteration of the scheduler's while loop *)

\* UOp(Ops.ENDRANGE if r.op is Ops.RANGE else Ops.ENDIF, src=(r,))
end_of(r) == UOp(IF r.op = "RANGE" THEN "ENDRANGE" ELSE "ENDIF", 0, <<r>>)

\* list.remove(r): drops the first occurrence
remove(s, r) ==
  LET k == CHOOSE i \in DOMAIN s : s[i] = r /\ \A j \in 1..(i - 1) : s[j] # r
  IN SubSeq(s, 1, k - 1) \o SubSeq(s, k + 1, Len(s))

\* for r in open_loops[::-1]: if r in to_end: emit the close, remove r
\* (snapshot is the reversed copy being iterated, from position i on)
RECURSIVE close_loops(_, _, _, _)
close_loops(snapshot, i, to_end, st) ==
  IF i > Len(snapshot) THEN st
  ELSE LET r == snapshot[i]
       IN IF InSeq(r, to_end)
          THEN close_loops(snapshot, i + 1, to_end,
                 [st EXCEPT !.uops = Append(@, end_of(r)),
                            !.open_loops = remove(@, r)])
          ELSE close_loops(snapshot, i + 1, to_end, st)

reversed(s) == [i \in 1..Len(s) |-> s[Len(s) + 1 - i]]

\* the message of the failed assert: f"loop {r.arg} wasn't opened? ..." up to
\* the question mark; an IF has no arg
not_opened(r) ==
  "loop " \o (IF r.op = "IF" THEN "None" ELSE ToString(r.arg)) \o " wasn't opened"

\* for c in children[x]: the asserts, to_end and the closes;
\* st = [uops, open_loops, err]
RECURSIVE end_ranges(_, _, _, _)
end_ranges(x, cs, i, st) ==
  IF i > Len(cs) THEN st
  ELSE LET c == cs[i]
       IN IF c.op # "BLOCK" THEN [st EXCEPT !.err = "child is not a BLOCK"]
          ELSE IF \E k \in DOMAIN x.rngs : ~InSeq(x.rngs[k], st.open_loops)
          THEN [st EXCEPT !.err = not_opened(
                  x.rngs[CHOOSE k \in DOMAIN x.rngs :
                    /\ ~InSeq(x.rngs[k], st.open_loops)
                    /\ \A j \in 1..(k - 1) : InSeq(x.rngs[j], st.open_loops)])]
          ELSE LET to_end == SelectSeq(x.rngs, LAMBDA r : ~InSeq(r, c.rngs))
               IN end_ranges(x, cs, i + 1,
                    close_loops(reversed(st.open_loops), 1, to_end, st))

\* a faulty BLOCK branch: the first member of a block of several is not
\* emitted
place_block_skips_first(x, cs, us, ol) ==
  end_ranges(x, cs, 1,
    [uops |-> us \o (IF Len(x.lst) >= 2 THEN Tail(x.lst) ELSE x.lst),
     open_loops |-> ol \o SelectSeq(x.lst, LAMBDA y : y.op = "IF"),
     err |-> ""])

\* the BLOCK branch: extend _uops, open the IFs, end ranges for each child
place_block(x, cs, us, ol) ==
  end_ranges(x, cs, 1,
    [uops |-> us \o x.lst,
     open_loops |-> ol \o SelectSeq(x.lst, LAMBDA y : y.op = "IF"),
     err |-> ""])

\* _uops.index(l): 0-based position of the first occurrence
index(s, l) == (CHOOSE i \in DOMAIN s : s[i] = l /\ \A j \in 1..(i - 1) : s[j] # l) - 1

\* the positions min() is taken over in the DEFINE_ACC branch
acc_positions(x, us) ==
  {index(us, x.src[k]) : k \in {k \in DOMAIN x.src : x.src[k].op = "RANGE"}}

Min(S) == CHOOSE m \in S : \A n \in S : m <= n

\* a faulty splice: after the element at idx instead of before it
insert_after(s, idx, x) == SubSeq(s, 1, idx + 1) \o <<x>> \o SubSeq(s, idx + 2, Len(s))

\* _uops.insert(idx, x)
insert(s, idx, x) == SubSeq(s, 1, idx) \o <<x>> \o SubSeq(s, idx + 1, Len(s))

\* for u in children[x]: in_degree[u] -= 1; if in_degree[u] == 0: push(u)
RECURSIVE release(_, _, _)
release(cs, i, st) ==
  IF i > Len(cs) THEN st
  ELSE LET u == cs[i]
           d == st.in_degree[u] - 1
       IN release(cs, i + 1,
            [in_degree |-> [st.in_degree EXCEPT ![u] = d],
             queue |-> IF d = 0 THEN push(st.queue, u) ELSE st.queue])

-----------------------------------------------------------------------------
(* the input graphs *)

c0 == UOp("CONST", 0, <<>>)
c10 == UOp("CONST", 10, <<>>)
DEFINE_GLOBAL(i) == UOp("DEFINE_GLOBAL", i, <<>>)
RANGE(i) == UOp("RANGE", i, <<c0, c10>>)
ALU(a, b) == UOp("ALU", 0, <<a, b>>)
INDEX(buf, i) == UOp("INDEX", 0, <<buf, i>>)
LOAD(buf, i) == UOp("LOAD", 0, <<INDEX(buf, i)>>)
IFgate(gate) == UOp("IF", 0, <<gate>>)
DEFINE_ACC(rs) == UOp("DEFINE_ACC", 0, <<c0>> \o rs)
\* acc = acc + v, accumulated over the ranges rs
REDUCE(rs, v) == UOp("ASSIGN", 0, <<DEFINE_ACC(rs), ALU(DEFINE_ACC(rs), v)>>)
SINK(stores) == UOp("SINK", 0, stores)

STORE(buf, i, v, g) ==
  UOp("STORE", 0, IF g = c0 THEN <<INDEX(buf, i), v>> ELSE <<INDEX(buf, i), v, g>>)

\* what the first STORE of a kernel is indexed by
IndexValues == {c0, RANGE(0), RANGE(1), ALU(RANGE(0), RANGE(1))}

\* what the first STORE writes: a constant, a loaded value, a value computed
\* in a loop, a reduction over RANGE(0) (of a value in that loop alone, or in
\* both loops), an accumulator with no range, an ASSIGN to no accumulator,
\* a value loaded after a STORE made in a loop, a value computed in both loops
StoredValues ==
  {c10,
   LOAD(DEFINE_GLOBAL(0), c0),
   ALU(LOAD(DEFINE_GLOBAL(0), RANGE(0)), c10),
   REDUCE(<<RANGE(0)>>, LOAD(DEFINE_GLOBAL(0), RANGE(0))),
   REDUCE(<<RANGE(0)>>, LOAD(DEFINE_GLOBAL(0), ALU(RANGE(0), RANGE(1)))),
   REDUCE(<<>>, LOAD(DEFINE_GLOBAL(0), c0)),
   UOp("ASSIGN", 0, <<LOAD(DEFINE_GLOBAL(0), c0), c10>>),
   UOp("LOAD", 0, <<INDEX(DEFINE_GLOBAL(0), c0), STORE(DEFINE_GLOBAL(0), RANGE(0), c10, c0)>>),
   ALU(LOAD(DEFINE_GLOBAL(0), ALU(RANGE(0), RANGE(1))), c10)}

\* the gates of the first STORE; c0 stands for "not gated"
Gates == {c0, IFgate(LOAD(DEFINE_GLOBAL(0), c0)), IFgate(ALU(RANGE(0), c10))}

\* what the first STORE of a kernel with several STOREs writes
SeveralStoredValues ==
  {c10, REDUCE(<<RANGE(0)>>, LOAD(DEFINE_GLOBAL(0), RANGE(0)))}

\* the second STORE is in loop 1, where it writes a loaded value or the loop
\* variable, gated or not; or it is outside the loops, gated, and writes the
\* loop variable.  Every STORE after it is one of two of these.
NextStoredValues == {LOAD(DEFINE_GLOBAL(0), c0), RANGE(1)}
NextGates == {c0, IFgate(LOAD(DEFINE_GLOBAL(0), c0))}

\* the k-th STORE of a kernel writes to buffer k
Stores(k) ==
  IF k = 1
  THEN {STORE(DEFINE_GLOBAL(k), i, v, g) : i \in IndexValues, v \in StoredValues, g \in Gates}
  ELSE IF k = 2
  THEN {STORE(DEFINE_GLOBAL(k), RANGE(1), v, g) : v \in NextStoredValues, g \in NextGates}
       \cup {STORE(DEFINE_GLOBAL(k), c0, RANGE(1), IFgate(LOAD(DEFINE_GLOBAL(0), c0)))}
  ELSE {STORE(DEFINE_GLOBAL(k), RANGE(1), LOAD(DEFINE_GLOBAL(0), c0), c0),
        STORE(DEFINE_GLOBAL(k), c0, RANGE(1), IFgate(LOAD(DEFINE_GLOBAL(0), c0)))}

\* the first STORE of a kernel with several STOREs
FirstOfSeveral ==
  {STORE(DEFINE_GLOBAL(1), i, v, g) : i \in IndexValues, v \in SeveralStoredValues, g \in Gates}

\* the operands of a SINK with n STOREs, n >= 2
RECURSIVE StoreSeqs(_)
StoreSeqs(n) ==
  IF n = 1 THEN {<<st>> : st \in FirstOfSeveral}
  ELSE {Append(s, st) : s \in StoreSeqs(n - 1), st \in Stores(n)}

Sinks ==
  {SINK(<<st>>) : st \in Stores(1)}
    \cup {SINK(s) : s \in UNION {StoreSeqs(n) : n \in 2..MaxStores}}

\* roots that are not a SINK
NotSinks == Stores(2)

-----------------------------------------------------------------------------
(* TinyJit construction (jit.py) *)

\* Python's None where an object is expected, and where a tuple is expected
None == [None |-> TRUE]
NoTuple == <<"None">>

\* TinyJit.__init__: nothing captured, nothing counted
TinyJit_init ==
  /\ cnt = 0
  /\ jit_fxn = None
  /\ self_ret = None
  /\ expected_vals = NoTuple
  /\ expected_sts_dtype = NoTuple

\* no TinyJit call has been made
NoJitCall ==
  /\ jpc = "idle"
  /\ args = [tensors |-> <<>>, vars |-> <<>>]
  /\ launched = <<>>
  /\ jerr = ""
  /\ jit_calls = 0
  /\ returned = 0

-----------------------------------------------------------------------------
(* linearize_uop *)

\* the state when linearize_uop is first called
Fresh ==
  /\ pc = "start"
  /\ err = ""
  /\ sink_bb = sink
  /\ children = EmptyDict
  /\ forks = {}
  /\ memo = EmptyDict
  /\ in_degree = [x \in {} |-> 0]
  /\ queue = <<>>
  /\ uops = <<>>
  /\ open_loops = <<>>
  /\ ret = <<>>
  /\ calls = 1
  /\ first = [pc |-> "", err |-> "", ret |-> <<>>]

Init ==
  /\ sink \in Sinks \cup NotSinks /\ Fresh
  /\ device = "GPU" /\ fxn = <<>> /\ TinyJit_init /\ NoJitCall

\* a faulty entry: the assert on the root is not made
AssertSink_off ==
  /\ pc = "start"
  /\ pc' = "block_uop" /\ err' = err
  /\ UNCHANGED <<sink, sink_bb, children, forks, memo, in_degree, queue,
                 uops, open_loops, ret, calls, first>>
  /\ UNCHANGED jvars

\* assert sink.op is Ops.SINK
AssertSink ==
  /\ pc = "start"
  /\ IF sink.op = "SINK"
     THEN pc' = "block_uop" /\ err' = err
     ELSE pc' = "err" /\ err' = "sink isn't sink"
  /\ UNCHANGED <<sink, sink_bb, children, forks, memo, in_degree, queue,
                 uops, open_loops, ret, calls, first>>
  /\ UNCHANGED jvars

\* block_uop up to the loop: the children of the input graph, no forks
BlockUopStart ==
  /\ pc = "block_uop"
  /\ children' = get_children_dfs(sink, EmptyDfs).children
  /\ forks' = {}
  /\ pc' = "rewrite"
  /\ UNCHANGED <<sink, err, sink_bb, memo, in_degree, queue, uops,
                 open_loops, ret, calls, first>>
  /\ UNCHANGED jvars

\* r is what graph_rewrite's next rule application gives
Rewritten(r) ==
  /\ r.ok
  /\ r.updated
  /\ sink_bb' = r.node
  /\ memo' = r.memo

\* graph_rewrite's next rule application (the SINK rule or append_to_block)
Rewrite ==
  /\ pc = "rewrite"
  /\ Rewritten(rewrite_once(children, forks, sink_bb, memo))
  /\ UNCHANGED <<sink, pc, err, children, forks, in_degree, queue, uops,
                 open_loops, ret, calls, first>>
  /\ UNCHANGED jvars

\* the assert of get_ranges_in_parents on an ASSIGN fails during a rewrite;
\* the calls that had returned before it failed are in the cache
RewriteFails ==
  /\ pc = "rewrite"
  /\ ~rewrite_once(children, forks, sink_bb, memo).ok
  /\ memo' = rewrite_once(children, forks, sink_bb, memo).memo
  /\ pc' = "err"
  /\ err' = "assign of no DEFINE_ACC"
  /\ UNCHANGED <<sink, sink_bb, children, forks, in_degree, queue,
                 uops, open_loops, ret, calls, first>>
  /\ UNCHANGED jvars

\* no rule applies any more
Unchanged(r) == r.ok /\ ~r.updated

\* a faulty scan: the forks found are added to the ones of the rounds
\* before, and the loop is left when none of them is new
FindForks_growing ==
  /\ pc = "rewrite"
  /\ Unchanged(rewrite_once(children, forks, sink_bb, memo))
  /\ forks' = forks \cup find_forks(sink_bb)
  /\ pc' = IF forks' = forks THEN "schedule" ELSE "rewrite"
  /\ UNCHANGED <<sink, err, sink_bb, children, memo, in_degree, queue,
                 uops, open_loops, ret, calls, first>>
  /\ UNCHANGED jvars

\* graph_rewrite has returned: recompute forks; leave the loop when none
FindForks ==
  /\ pc = "rewrite"
  /\ Unchanged(rewrite_once(children, forks, sink_bb, memo))
  /\ forks' = find_forks(sink_bb)
  /\ pc' = IF forks' = {} THEN "schedule" ELSE "rewrite"
  /\ UNCHANGED <<sink, err, sink_bb, children, memo, in_degree, queue,
                 uops, open_loops, ret, calls, first>>
  /\ UNCHANGED jvars

\* st is what get_children_dfs has filled in
Seeded(st) ==
  /\ children' = st.children
  /\ in_degree' = st.in_degree
  /\ queue' = push_all(<<>>, SelectSeq(st.keys, LAMBDA u : st.in_degree[u] = 0))

\* the scheduler's get_children_dfs and the seeding of the queue
ScheduleStart ==
  /\ pc = "schedule"
  /\ Seeded(get_children_dfs(sink_bb, EmptyDfs))
  /\ pc' = "place"
  /\ UNCHANGED <<sink, err, sink_bb, forks, memo, uops, open_loops, ret, calls, first>>
  /\ UNCHANGED jvars

\* the end of a loop iteration: lines 162-164 on the queue h left by the pop
Released(x, h) ==
  /\ in_degree' = release(children[x], 1, [in_degree |-> in_degree, queue |-> h]).in_degree
  /\ queue' = release(children[x], 1, [in_degree |-> in_degree, queue |-> h]).queue

\* b is what the BLOCK branch has done for the popped x
BlockPlaced(x, h, b) ==
  /\ uops' = b.uops
  /\ open_loops' = b.open_loops
  /\ IF b.err = ""
     THEN Released(x, h) /\ UNCHANGED <<pc, err>>
     ELSE /\ pc' = "err"
          /\ err' = b.err
          /\ in_degree' = in_degree
          /\ queue' = h

PoppedBlock(x, h) ==
  /\ x.op = "BLOCK"
  /\ BlockPlaced(x, h, place_block(x, children[x], uops, open_loops))

\* a loop iteration that pops a BLOCK
PlaceBlock ==
  /\ pc = "place" /\ queue # <<>>
  /\ PoppedBlock(heappop(queue).item, heappop(queue).heap)
  /\ UNCHANGED <<sink, sink_bb, children, forks, memo, ret, calls, first>>
  /\ UNCHANGED jvars

\* a faulty DEFINE_ACC branch: with no RANGE operand the node is appended
PoppedDefineAcc_appends(x, h) ==
  /\ x.op = "DEFINE_ACC"
  /\ uops' = IF acc_positions(x, uops) # {}
             THEN insert(uops, Min(acc_positions(x, uops)), x)
             ELSE Append(uops, x)
  /\ Released(x, h)
  /\ UNCHANGED <<pc, err>>

PoppedDefineAcc(x, h) ==
  /\ x.op = "DEFINE_ACC"
  /\ IF acc_positions(x, uops) # {}
     THEN /\ uops' = insert(uops, Min(acc_positions(x, uops)), x)
          /\ Released(x, h)
          /\ UNCHANGED <<pc, err>>
     ELSE /\ pc' = "err"
          /\ err' = "min() arg is an empty sequence"
          /\ queue' = h
          /\ UNCHANGED <<uops, in_degree>>

\* a loop iteration that pops a DEFINE_ACC
PlaceDefineAcc ==
  /\ pc = "place" /\ queue # <<>>
  /\ PoppedDefineAcc(heappop(queue).item, heappop(queue).heap)
  /\ UNCHANGED <<sink, sink_bb, children, forks, memo, open_loops, ret, calls, first>>
  /\ UNCHANGED jvars

PoppedOther(x, h) ==
  /\ x.op \notin {"BLOCK", "DEFINE_ACC"}
  /\ open_loops' = IF x.op = "RANGE" THEN Append(open_loops, x) ELSE open_loops
  /\ uops' = Append(uops, x)
  /\ Released(x, h)

\* a loop iteration that pops any other node
PlaceOther ==
  /\ pc = "place" /\ queue # <<>>
  /\ PoppedOther(heappop(queue).item, heappop(queue).heap)
  /\ UNCHANGED <<sink, pc, err, sink_bb, children, forks, memo, ret, calls, first>>
  /\ UNCHANGED jvars

\* a faulty return: the SINK is not stripped
Return_whole ==
  /\ pc = "place" /\ queue = <<>>
  /\ IF uops # <<>> /\ uops[Len(uops)].op = "SINK"
     THEN pc' = "done" /\ ret' = uops /\ err' = err
     ELSE pc' = "err" /\ ret' = ret /\ err' = "last uop is not the SINK"
  /\ UNCHANGED <<sink, sink_bb, children, forks, memo, in_degree, queue,
                 uops, open_loops, calls, first>>
  /\ UNCHANGED jvars

\* the queue is empty: assert _uops[-1].op is Ops.SINK; return _uops[:-1]
\* (type_verify, of tinygrad.ops, is taken to accept _uops)
Return ==
  /\ pc = "place" /\ queue = <<>>
  /\ IF uops # <<>> /\ uops[Len(uops)].op = "SINK"
     THEN pc' = "done" /\ ret' = SubSeq(uops, 1, Len(uops) - 1) /\ err' = err
     ELSE pc' = "err" /\ ret' = ret /\ err' = "last uop is not the SINK"
  /\ UNCHANGED <<sink, sink_bb, children, forks, memo, in_degree, queue,
                 uops, open_loops, calls, first>>
  /\ UNCHANGED jvars

\* a faulty call: the cache of get_ranges_in_parents is emptied when a call
\* starts
CallAgain_fresh_cache ==
  /\ pc \in {"done", "err"}
  /\ calls < MaxCalls
  /\ calls' = calls + 1
  /\ first' = IF calls = 1 THEN [pc |-> pc, err |-> err, ret |-> ret] ELSE first
  /\ pc' = "start"
  /\ err' = ""
  /\ sink_bb' = sink
  /\ children' = EmptyDict
  /\ forks' = {}
  /\ memo' = EmptyDict
  /\ in_degree' = [x \in {} |-> 0]
  /\ queue' = <<>>
  /\ uops' = <<>>
  /\ open_loops' = <<>>
  /\ ret' = <<>>
  /\ UNCHANGED sink
  /\ UNCHANGED jvars

\* linearize_uop is called again on the same graph; only the lru_cache of
\* get_ranges_in_parents outlives a call
CallAgain ==
  /\ pc \in {"done", "err"}
  /\ calls < MaxCalls
  /\ calls' = calls + 1
  /\ first' = IF calls = 1 THEN [pc |-> pc, err |-> err, ret |-> ret] ELSE first
  /\ pc' = "start"
  /\ err' = ""
  /\ sink_bb' = sink
  /\ children' = EmptyDict
  /\ forks' = {}
  /\ in_degree' = [x \in {} |-> 0]
  /\ queue' = <<>>
  /\ uops' = <<>>
  /\ open_loops' = <<>>
  /\ ret' = <<>>
  /\ UNCHANGED <<sink, memo>>
  /\ UNCHANGED jvars

Next ==
  \/ AssertSink
  \/ BlockUopStart
  \/ Rewrite
  \/ RewriteFails
  \/ FindForks
  \/ ScheduleStart
  \/ PlaceBlock
  \/ PlaceDefineAcc
  \/ PlaceOther
  \/ Return
  \/ CallAgain

Spec == Init /\ [][Next]_vars

-----------------------------------------------------------------------------
(* TinyJit and BatchExecutor (jit.py) *)

\* number of calls made on one TinyJit object
MaxJitCalls == 4

JIT_SUPPORTED_DEVICE == {"GPU", "CLANG", "METAL", "CUDA", "HIP", "WEBGPU", "LLVM"}

\* a positional argument: a realized Tensor (its RawBuffer and its
\* ShapeTracker/dtype), or a value that is not a Tensor
Tensor(b, st) == [buf |-> b, st |-> st]
Scalar == [buf |-> "None", st |-> "None"]
IsTensor(v) == v.buf # "None"

JitItem(prg, rawbufs) == [prg |-> prg, rawbufs |-> rawbufs]

\* a buffer of a kernel of the wrapped function: the buffer of the k-th
\* argument, or a buffer the function owns
Arg(k) == [arg |-> k, buf |-> "None"]
Buf(b) == [arg |-> 0 - 1, buf |-> b]
Kernel(prg, refs) == [prg |-> prg, refs |-> refs]

\* the buffers a kernel is launched with when the function runs on a: a
\* non-Tensor argument is a constant of the kernel, not a buffer
rawbufs_of(refs, a) ==
  LET kept == SelectSeq(refs, LAMBDA r : r.arg = 0 - 1 \/ IsTensor(a.tensors[r.arg + 1]))
  IN  [i \in DOMAIN kept |->
         IF kept[i].arg = 0 - 1 THEN kept[i].buf ELSE a.tensors[kept[i].arg + 1].buf]

\* the kernels self.fxn(*args) launches, in order
kernels_of(f, a) == [j \in DOMAIN f |-> JitItem(f[j].prg, rawbufs_of(f[j].refs, a))]

\* the trace of one run of self.fxn(*args): the call, then its kernels
FxnCall == JitItem("fxn", <<>>)
run_fxn(f, a) == <<FxnCall>> \o kernels_of(f, a)

\* the value self.fxn(*args) returns
Result(a) == [fxn_of |-> a]

\* input_rawbuffers: argument position -> RawBuffer, Tensors only
input_rawbuffers(a) ==
  [k \in {i - 1 : i \in {i \in DOMAIN a.tensors : IsTensor(a.tensors[i])}} |->
     a.tensors[k + 1].buf]

values(d) == {d[k] : k \in DOMAIN d}

\* expected_sts_dtype and expected_vals of a call
sts_dtype(a) ==
  LET t == SelectSeq(a.tensors, IsTensor) IN [i \in DOMAIN t |-> t[i].st]
var_keys(a) == a.vars

\* the buffers that depend on the inputs: one pass over the captured kernels
RECURSIVE depends_loop(_, _, _)
depends_loop(jit_cache, j, depends) ==
  IF j > Len(jit_cache) THEN depends
  ELSE depends_loop(jit_cache, j + 1,
         IF \E i \in 2..Len(jit_cache[j].rawbufs) : jit_cache[j].rawbufs[i] \in depends
         THEN depends \cup {jit_cache[j].rawbufs[1]}
         ELSE depends)

depends_of(jit_cache, irb) == depends_loop(jit_cache, 1, values(irb))

\* a faulty partition: the kernels that read a dependent buffer are kept
jit_cache_dependent_readers(jit_cache, depends) ==
  SelectSeq(jit_cache, LAMBDA ji :
    \E i \in 2..Len(ji.rawbufs) : ji.rawbufs[i] \in depends)

\* partition(jit_cache, lambda ji: ji.rawbufs[0] in depends)
jit_cache_dependent(jit_cache, depends) ==
  SelectSeq(jit_cache, LAMBDA ji : ji.rawbufs # <<>> /\ ji.rawbufs[1] \in depends)
jit_cache_independent(jit_cache, depends) ==
  SelectSeq(jit_cache, LAMBDA ji : ~(ji.rawbufs # <<>> /\ ji.rawbufs[1] \in depends))

\* BatchExecutor.__init__: the slots (j, i) that hold an input buffer, each
\* mapped to the name of that input
input_replace(jit_cache, irb) ==
  [p \in UNION {{<<j, i>> : i \in {i \in DOMAIN jit_cache[j].rawbufs :
                                     jit_cache[j].rawbufs[i] \in values(irb)}} :
                j \in DOMAIN jit_cache} |->
     CHOOSE k \in DOMAIN irb :
       /\ irb[k] = jit_cache[p[1]].rawbufs[p[2]]
       /\ \A k2 \in DOMAIN irb : irb[k2] = irb[k] => k <= k2]

\* a faulty clear_jit_inputs: the slots keep what they hold
clear_jit_inputs_keeps(jit_cache, ir) == jit_cache

\* BatchExecutor.clear_jit_inputs
clear_jit_inputs(jit_cache, ir) ==
  [j \in DOMAIN jit_cache |->
     JitItem(jit_cache[j].prg,
             [i \in DOMAIN jit_cache[j].rawbufs |->
                IF <<j, i>> \in DOMAIN ir THEN "None" ELSE jit_cache[j].rawbufs[i]])]

BatchExecutor(jit_cache, ir) == [jit_cache |-> jit_cache, input_replace |-> ir]

\* BatchExecutor.__init__ : [ok, exec]
BatchExecutor_init(jit_cache, irb) ==
  [ok   |-> values(input_replace(jit_cache, irb)) = DOMAIN irb,
   exec |-> BatchExecutor(clear_jit_inputs(jit_cache, input_replace(jit_cache, irb)),
                          input_replace(jit_cache, irb))]

\* the order of the items of input_replace: the order of insertion
key_lt(p, q) == p[1] < q[1] \/ (p[1] = q[1] /\ p[2] < q[2])

\* the slots whose input name the call did not pass
missing(ir, irb) == {p \in DOMAIN ir : ir[p] \notin DOMAIN irb}

\* a faulty first loop: the slots keep what they held
substitute_nothing(jit_cache, ir, irb) == jit_cache

\* BatchExecutor.__call__, the first loop: every slot up to the first one
\* whose input is missing gets the buffer passed under its name
substitute(jit_cache, ir, irb) ==
  [j \in DOMAIN jit_cache |->
     JitItem(jit_cache[j].prg,
             [i \in DOMAIN jit_cache[j].rawbufs |->
                IF /\ <<j, i>> \in DOMAIN ir
                   /\ \A q \in missing(ir, irb) : key_lt(<<j, i>>, q)
                THEN irb[ir[<<j, i>>]]
                ELSE jit_cache[j].rawbufs[i]])]

\* the asserts on the inputs of a call ("" when they pass)
input_error(a) ==
  IF DOMAIN input_rawbuffers(a) = {} THEN "no inputs to JIT"
  ELSE IF Cardinality(values(input_rawbuffers(a))) # Cardinality(DOMAIN input_rawbuffers(a))
       THEN "duplicate inputs to JIT"
       ELSE ""

\* faulty asserts of a call with cnt >= 2: the shapes and dtypes of the
\* inputs are not compared
replay_error_ignores_sts(a) ==
  IF expected_vals # var_keys(a) THEN "mismatch of var_vals"
  ELSE IF jit_fxn = None THEN "didn't get jitted?"
       ELSE ""

\* the asserts of a call with cnt >= 2 ("" when they pass)
replay_error(a) ==
  IF expected_vals # var_keys(a) THEN "mismatch of var_vals"
  ELSE IF expected_sts_dtype # sts_dtype(a) THEN "mismatch of sts"
       ELSE IF jit_fxn = None THEN "didn't get jitted?"
            ELSE ""

(* The wrapped functions and the calls of the model *)

\* t1 <- arg0 ; t2 <- t1, arg1 ; t3 <- w
fxn_chain ==
  <<Kernel("k1", <<Buf("t1"), Arg(0)>>),
    Kernel("k2", <<Buf("t2"), Buf("t1"), Arg(1)>>),
    Kernel("k3", <<Buf("t3"), Buf("w")>>)>>
\* t1 <- t2 ; t2 <- arg0, arg1 : t2 is read before the kernel that writes it
fxn_late ==
  <<Kernel("k1", <<Buf("t1"), Buf("t2")>>),
    Kernel("k2", <<Buf("t2"), Arg(0), Arg(1)>>)>>
\* t1 <- w : no kernel reads an input
fxn_const == <<Kernel("k1", <<Buf("t1"), Buf("w")>>)>>
\* no kernel at all
fxn_none == <<>>
\* t1 <- w ; t1 <- arg0, arg1 : t1 is written twice, the second time from
\* the inputs
fxn_reuse ==
  <<Kernel("k1", <<Buf("t1"), Buf("w")>>),
    Kernel("k2", <<Buf("t1"), Arg(0), Arg(1)>>)>>

Fxns == {fxn_chain, fxn_late, fxn_const, fxn_none, fxn_reuse}

JitTensors ==
  {<<Tensor("a", "s1"), Tensor("b", "s1")>>,
   <<Tensor("b", "s1"), Tensor("a", "s1")>>,
   <<Tensor("a", "s2"), Tensor("b", "s1")>>,
   <<Tensor("a", "s1"), Tensor("a", "s1")>>,
   <<Tensor("a", "s1"), Scalar>>,
   <<Scalar, Tensor("b", "s1")>>,
   <<Scalar, Scalar>>}

JitArgs == [tensors : JitTensors, vars : {<<>>, <<"i">>}]

(* TinyJit.__call__ *)

\* the call is over: it returned (e = "") or raised e, having executed l
Ended(a, e, l) ==
  /\ jpc' = "idle"
  /\ args' = a
  /\ jerr' = e
  /\ launched' = l
  /\ jit_calls' = jit_calls + 1
  /\ returned' = IF e = "" THEN returned + 1 ELSE returned

Entered(a) ==
  /\ jpc = "idle"
  /\ jit_calls < MaxJitCalls

\* the device is not supported: the call is the wrapped function's
CallUnsupported ==
  \E a \in JitArgs :
    /\ Entered(a)
    /\ device \notin JIT_SUPPORTED_DEVICE
    /\ Ended(a, "", run_fxn(fxn, a))
    /\ UNCHANGED <<cnt, jit_fxn, self_ret, expected_vals, expected_sts_dtype>>
    /\ UNCHANGED <<device, fxn>>
    /\ UNCHANGED lvars

\* no Tensor among the arguments, or two Tensors on one buffer
CallRejected ==
  \E a \in JitArgs :
    /\ Entered(a)
    /\ device \in JIT_SUPPORTED_DEVICE
    /\ input_error(a) # ""
    /\ Ended(a, input_error(a), <<>>)
    /\ UNCHANGED <<cnt, jit_fxn, self_ret, expected_vals, expected_sts_dtype>>
    /\ UNCHANGED <<device, fxn>>
    /\ UNCHANGED lvars

\* cnt == 0: the wrapped function runs
CallFirst ==
  \E a \in JitArgs :
    /\ Entered(a)
    /\ device \in JIT_SUPPORTED_DEVICE
    /\ input_error(a) = ""
    /\ cnt = 0
    /\ self_ret' = Result(a)
    /\ cnt' = cnt + 1
    /\ Ended(a, "", run_fxn(fxn, a))
    /\ UNCHANGED <<jit_fxn, expected_vals, expected_sts_dtype>>
    /\ UNCHANGED <<device, fxn>>
    /\ UNCHANGED lvars

\* cnt == 1 from CacheCollector.finish() on: jc is what was captured, dep the
\* buffers that depend on the inputs
Captured(a, jc, dep) ==
  IF jc = <<>>
  THEN /\ Ended(a, "didn't JIT anything!", run_fxn(fxn, a))
       /\ UNCHANGED <<cnt, jit_fxn>>
  ELSE IF ~BatchExecutor_init(jit_cache_dependent(jc, dep), input_rawbuffers(a)).ok
       THEN /\ Ended(a, "some input tensors not found",
                     run_fxn(fxn, a) \o jit_cache_independent(jc, dep))
            /\ UNCHANGED <<cnt, jit_fxn>>
       ELSE /\ Ended(a, "", run_fxn(fxn, a) \o jit_cache_independent(jc, dep))
            /\ jit_fxn' = BatchExecutor_init(jit_cache_dependent(jc, dep),
                                             input_rawbuffers(a)).exec
            /\ cnt' = cnt + 1

\* cnt == 1: the wrapped function runs under the CacheCollector
CallCapture ==
  \E a \in JitArgs :
    /\ Entered(a)
    /\ device \in JIT_SUPPORTED_DEVICE
    /\ input_error(a) = ""
    /\ cnt = 1
    /\ expected_vals' = var_keys(a)
    /\ expected_sts_dtype' = sts_dtype(a)
    /\ self_ret' = Result(a)
    /\ Captured(a, kernels_of(fxn, a),
                depends_of(kernels_of(fxn, a), input_rawbuffers(a)))
    /\ UNCHANGED <<device, fxn>>
    /\ UNCHANGED lvars

\* cnt >= 2 and the call does not match the captured one
CallMismatch ==
  \E a \in JitArgs :
    /\ Entered(a)
    /\ device \in JIT_SUPPORTED_DEVICE
    /\ input_error(a) = ""
    /\ cnt >= 2
    /\ replay_error(a) # ""
    /\ Ended(a, replay_error(a), <<>>)
    /\ UNCHANGED <<cnt, jit_fxn, self_ret, expected_vals, expected_sts_dtype>>
    /\ UNCHANGED <<device, fxn>>
    /\ UNCHANGED lvars

\* cnt >= 2: self.jit_fxn(input_rawbuffers, var_vals) is entered
CallReplay ==
  \E a \in JitArgs :
    /\ Entered(a)
    /\ device \in JIT_SUPPORTED_DEVICE
    /\ input_error(a) = ""
    /\ cnt >= 2
    /\ replay_error(a) = ""
    /\ jpc' = "replay"
    /\ args' = a
    /\ jerr' = ""
    /\ launched' = <<>>
    /\ jit_calls' = jit_calls + 1
    /\ UNCHANGED <<cnt, jit_fxn, self_ret, expected_vals, expected_sts_dtype, returned>>
    /\ UNCHANGED <<device, fxn>>
    /\ UNCHANGED lvars

\* BatchExecutor.__call__, the first loop
ReplayFill ==
  /\ jpc = "replay"
  /\ jit_fxn' = BatchExecutor(substitute(jit_fxn.jit_cache, jit_fxn.input_replace,
                                         input_rawbuffers(args)),
                              jit_fxn.input_replace)
  /\ IF missing(jit_fxn.input_replace, input_rawbuffers(args)) = {}
     THEN jpc' = "filled" /\ jerr' = jerr
     ELSE jpc' = "idle" /\ jerr' = "KeyError"
  /\ UNCHANGED <<cnt, self_ret, expected_vals, expected_sts_dtype, args,
                 launched, jit_calls, returned>>
  /\ UNCHANGED <<device, fxn>>
  /\ UNCHANGED lvars

\* BatchExecutor.__call__, the second loop: every kernel of jit_cache runs
ReplayRun ==
  /\ jpc = "filled"
  /\ launched' = launched \o jit_fxn.jit_cache
  /\ jpc' = "ran"
  /\ UNCHANGED <<cnt, jit_fxn, self_ret, expected_vals, expected_sts_dtype, args,
                 jerr, jit_calls, returned>>
  /\ UNCHANGED <<device, fxn>>
  /\ UNCHANGED lvars

\* BatchExecutor.__call__ clears the slots and TinyJit.__call__ returns
ReplayReturn ==
  /\ jpc = "ran"
  /\ jit_fxn' = BatchExecutor(clear_jit_inputs(jit_fxn.jit_cache, jit_fxn.input_replace),
                              jit_fxn.input_replace)
  /\ cnt' = cnt + 1
  /\ returned' = returned + 1
  /\ jpc' = "idle"
  /\ UNCHANGED <<self_ret, expected_vals, expected_sts_dtype, args, launched,
                 jerr, jit_calls>>
  /\ UNCHANGED <<device, fxn>>
  /\ UNCHANGED lvars

JitNext ==
  \/ CallUnsupported
  \/ CallRejected
  \/ CallFirst
  \/ CallCapture
  \/ CallMismatch
  \/ CallReplay
  \/ ReplayFill
  \/ ReplayRun
  \/ ReplayReturn

\* a TinyJit object on some device around some function, never yet called
JitInit ==
  /\ sink = c0 /\ Fresh
  /\ device \in {"GPU", "CPU"}
  /\ fxn \in Fxns
  /\ TinyJit_init /\ NoJitCall

JitSpec == JitInit /\ [][JitNext]_vars

-----------------------------------------------------------------------------
(* properties of the returned sequence *)

Returned == pc = "done"
IsScope(u) == u.op \in {"RANGE", "IF"}
IsEnd(u) == u.op \in {"ENDRANGE", "ENDIF"}
\* position j of ret holds a close instruction that references scope s
Closes(j, s) == IsEnd(ret[j]) /\ ret[j].src = <<s>>
\* u occurs in ret at one of the positions lo..hi
Occurs(u, lo, hi) == \E j \in lo..hi : ret[j] = u
\* scope s is open at position i: an occurrence of s precedes i with no close
\* of s in between
OpenAt(s, i) ==
  \E o \in 1..(i - 1) : ret[o] = s /\ \A e \in o..i : ~Closes(e, s)
ClosedAfter(s, i) == \E e \in (i + 1)..Len(ret) : Closes(e, s)
\* the resolved scope set of u, computed without a cache
rngs_of(u) == get_ranges_in_parents(u, EmptyDict).ret
Blocks(n) == {b \in sparents(n) : b.op = "BLOCK"}

\* C1 as stated: in the returned sequence every operand of every node, of
\* every kind, appears at an earlier position than the node.
C1_EveryOperandEarlier ==
  Returned =>
    \A i \in DOMAIN ret : \A k \in DOMAIN ret[i].src :
      Occurs(ret[i].src[k], 1, i - 1)

\* C1 amended: in the returned sequence every operand of every node appears
\* at an earlier position than the node, except the RANGE operands of a
\* DEFINE_ACC (the DEFINE_ACC is spliced in before them).
C1_OperandEarlierExceptAccRanges ==
  Returned =>
    \A i \in DOMAIN ret : \A k \in DOMAIN ret[i].src :
      \/ ret[i].op = "DEFINE_ACC" /\ ret[i].src[k].op = "RANGE"
      \/ Occurs(ret[i].src[k], 1, i - 1)

\* a returned sequence with a DEFINE_ACC, an ENDRANGE and an ENDIF
C1_Witness ==
  /\ Returned
  /\ \E i, j, k \in DOMAIN ret :
       ret[i].op = "DEFINE_ACC" /\ ret[j].op = "ENDRANGE" /\ ret[k].op = "ENDIF"

\* C2: in the returned sequence each RANGE and each IF that appears is
\* referenced by exactly one close instruction, and is opened once.
C2_ExactlyOneClose ==
  Returned =>
    \A i \in DOMAIN ret :
      IsScope(ret[i]) =>
        /\ Cardinality({j \in DOMAIN ret : Closes(j, ret[i])}) = 1
        /\ Cardinality({j \in DOMAIN ret : ret[j] = ret[i]}) = 1

\* a returned sequence in which one IF is closed by two ENDIFs
C2_ClosedTwice ==
  /\ Returned
  /\ \E i \in DOMAIN ret :
       ret[i].op = "IF" /\ Cardinality({j \in DOMAIN ret : Closes(j, ret[i])}) = 2

\* the stack scan of s from position i on: push on RANGE/IF; a close must
\* refer to the top of the stack, and pops it
RECURSIVE nesting_ok(_, _, _)
nesting_ok(s, i, stack) ==
  IF i > Len(s) THEN TRUE
  ELSE IF IsScope(s[i]) THEN nesting_ok(s, i + 1, Append(stack, s[i]))
  ELSE IF IsEnd(s[i])
  THEN /\ stack # <<>>
       /\ stack[Len(stack)] = s[i].src[1]
       /\ nesting_ok(s, i + 1, SubSeq(stack, 1, Len(stack) - 1))
  ELSE nesting_ok(s, i + 1, stack)

\* C3: scanning the returned sequence with a stack, every close instruction
\* refers to the scope on top of the stack and the stack never underflows.
C3_ProperlyNested == Returned => nesting_ok(ret, 1, <<>>)

\* a returned sequence that opens and closes every scope exactly once and
\* still closes a scope that is not the innermost open one
C3_ClosedOutOfOrder ==
  /\ Returned
  /\ ~nesting_ok(ret, 1, <<>>)
  /\ \A i \in DOMAIN ret :
       IsScope(ret[i]) =>
         /\ Cardinality({j \in DOMAIN ret : Closes(j, ret[i])}) = 1
         /\ Cardinality({j \in DOMAIN ret : ret[j] = ret[i]}) = 1

\* C4: in the returned sequence each DEFINE_ACC appears before every RANGE
\* among its operands and before every node that has it as an operand.
C4_AccBeforeRangesAndReaders ==
  Returned =>
    \A i \in DOMAIN ret :
      ret[i].op = "DEFINE_ACC" =>
        \A j \in DOMAIN ret :
          (\/ ret[j].op = "RANGE" /\ InSeq(ret[j], ret[i].src)
           \/ InSeq(ret[i], ret[j].src)) => i < j

\* a returned sequence with a DEFINE_ACC, then its RANGE, then its ASSIGN
C4_Witness ==
  /\ Returned
  /\ \E i, j, k \in DOMAIN ret :
       /\ i < j /\ j < k
       /\ ret[i].op = "DEFINE_ACC"
       /\ ret[j].op = "RANGE" /\ InSeq(ret[j], ret[i].src)
       /\ ret[k].op = "ASSIGN" /\ ret[k].src[1] = ret[i]

\* C5 as stated: every occurrence of a node of the input graph whose resolved
\* scope set contains a scope S lies after the RANGE/IF node S and before the
\* ENDRANGE/ENDIF that references S.
C5_AfterOpenBeforeClose ==
  Returned =>
    \A i \in DOMAIN ret :
      ~IsEnd(ret[i]) =>
        \A k \in DOMAIN rngs_of(ret[i]) :
          LET S == rngs_of(ret[i])[k]
          IN /\ Occurs(S, 1, i - 1)
             /\ \A o \in DOMAIN ret : ret[o] = S => o < i
             /\ ClosedAfter(S, i)
             /\ \A e \in DOMAIN ret : Closes(e, S) => i < e

\* C5 amended: every occurrence of a node of the input graph other than a
\* DEFINE_ACC whose resolved scope set contains a scope S lies where S is
\* open (an occurrence of S precedes it with no close of S in between) and a
\* close of S follows it.
C5_InsideOpenScope ==
  Returned =>
    \A i \in DOMAIN ret :
      (~IsEnd(ret[i]) /\ ret[i].op # "DEFINE_ACC") =>
        \A k \in DOMAIN rngs_of(ret[i]) :
          LET S == rngs_of(ret[i])[k]
          IN OpenAt(S, i) /\ ClosedAfter(S, i)

\* a returned sequence with RANGE, IF, STORE, ENDIF, ENDRANGE in that order,
\* the STORE being in both scopes
C5_Witness ==
  /\ Returned
  /\ \E a, b, c, d, e \in DOMAIN ret :
       /\ a < b /\ b < c /\ c < d /\ d < e
       /\ ret[a].op = "RANGE" /\ ret[b].op = "IF" /\ ret[c].op = "STORE"
       /\ rngs_of(ret[c]) = <<ret[a], ret[b]>>
       /\ Closes(d, ret[b]) /\ Closes(e, ret[a])

\* n reaches r along operands without passing through a
RECURSIVE reaches_avoiding(_, _, _)
reaches_avoiding(n, r, a) ==
  n = r \/ (n # a /\ \E k \in DOMAIN n.src : reaches_avoiding(n.src[k], r, a))

\* C6: for an ASSIGN to a DEFINE_ACC with reduction RANGE r, the ASSIGN lies
\* between r and the ENDRANGE of r, and every node that depends on r only
\* through the ASSIGN lies after that ENDRANGE.
C6_AssignInsideReadersAfter ==
  Returned =>
    \A i \in DOMAIN ret :
      ret[i].op = "ASSIGN" =>
        \A k \in DOMAIN ret[i].src[1].src :
          LET r == ret[i].src[1].src[k]
          IN r.op = "RANGE" =>
               /\ OpenAt(r, i) /\ ClosedAfter(r, i)
               /\ \A j \in DOMAIN ret :
                    (/\ ~IsEnd(ret[j]) /\ ret[j] # ret[i]
                     /\ ret[i] \in sparents(ret[j])
                     /\ ~reaches_avoiding(ret[j], r, ret[i]))
                    => \E e \in (i + 1)..(j - 1) : Closes(e, r)

\* a returned sequence with RANGE r, ASSIGN, ENDRANGE of r, then the STORE of
\* the reduced value, which reaches r only through the ASSIGN
C6_Witness ==
  /\ Returned
  /\ \E o, i, e, j \in DOMAIN ret :
       /\ o < i /\ i < e /\ e < j
       /\ ret[o].op = "RANGE" /\ ret[i].op = "ASSIGN"
       /\ InSeq(ret[o], ret[i].src[1].src)
       /\ Closes(e, ret[o])
       /\ ret[j].op = "STORE" /\ ret[j].src[2] = ret[i]
       /\ ~reaches_avoiding(ret[j], ret[o], ret[i])

\* the operations placed into the member lists of two or more blocks
SharedOps(n) ==
  {u \in UNION {{b.lst[k] : k \in DOMAIN b.lst} : b \in Blocks(n)} :
     Cardinality({b \in Blocks(n) : InSeq(u, b.lst)}) >= 2}

\* C7: when block_uop returns, every operand of every BLOCK is a BLOCK or a
\* leaf kind and every other operation of the input graph is in the member
\* list of some block; and the scheduler does not fail on a scope that is an
\* operation shared by two blocks.
C7_AllPlacedAndSchedulable ==
  /\ pc = "schedule" =>
       /\ \A b \in Blocks(sink_bb) : \A k \in DOMAIN b.src :
            b.src[k].op = "BLOCK" \/ b.src[k].op \in DONT_PLACE_IN_BLOCK
       /\ \A u \in sparents(sink) :
            u.op \notin DONT_PLACE_IN_BLOCK =>
              \E b \in Blocks(sink_bb) : InSeq(u, b.lst)
  /\ ~(/\ pc = "err" /\ err = "loop None wasn't opened"
       /\ \E u \in SharedOps(sink_bb) : u.op = "IF")

\* the scheduler has failed on an IF that is a member of two blocks
C7_SharedIfNotOpen ==
  /\ pc = "err" /\ err = "loop None wasn't opened"
  /\ \E u \in SharedOps(sink_bb) : u.op = "IF"

\* every ASSIGN is to a DEFINE_ACC and every DEFINE_ACC has a RANGE operand
WellFormed(n) ==
  \A u \in sparents(n) :
    /\ u.op = "ASSIGN" => u.src[1].op = "DEFINE_ACC"
    /\ u.op = "DEFINE_ACC" => \E k \in DOMAIN u.src : u.src[k].op = "RANGE"

\* C8: for a SINK-rooted graph (here: one whose ASSIGNs and DEFINE_ACCs are
\* well formed) the call does not stop in an error, and when it stops the
\* last round of block_uop found no fork, the queue is empty and every node
\* of the block-structured graph has been emitted.
C8_RunsToCompletion ==
  (sink.op = "SINK" /\ WellFormed(sink)) =>
    /\ pc # "err"
    /\ Returned =>
         /\ forks = {} /\ queue = <<>>
         /\ \A n \in sparents(sink_bb) :
              IF n.op = "BLOCK" THEN \A k \in DOMAIN n.lst : InSeq(n.lst[k], uops)
              ELSE InSeq(n, uops)

\* the scheduler has stopped on the failed assert with nodes still waiting
C8_StoppedEarly ==
  /\ sink.op = "SINK" /\ WellFormed(sink)
  /\ pc = "err" /\ err = "loop 1 wasn't opened"
  /\ \E n \in Blocks(sink_bb) : \E k \in DOMAIN n.lst : ~InSeq(n.lst[k], uops)

C10_NotSinkRejected ==
  sink.op # "SINK" =>
    /\ pc \in {"start", "err"}
    /\ pc = "err" => err = "sink isn't sink"
    /\ sink_bb = sink /\ children = EmptyDict /\ forks = {}
    /\ memo = EmptyDict /\ queue = <<>> /\ uops = <<>> /\ ret = <<>>

\* the call on a root that is not a SINK has failed
C10_Witness == sink.op # "SINK" /\ pc = "err" /\ err = "sink isn't sink"

\* C11: whenever the scheduler's loop ends, the last element of _uops is the
\* SINK of the input graph and it is the only SINK emitted, so the final
\* check never fails; the returned sequence is _uops without that last
\* element and contains no SINK.
C11_SinkLastAndStripped ==
  /\ err # "last uop is not the SINK"
  /\ (pc = "place" /\ queue = <<>>) =>
       /\ uops # <<>> /\ uops[Len(uops)] = sink
       /\ \A i \in 1..(Len(uops) - 1) : uops[i].op # "SINK"
  /\ Returned =>
       /\ uops = Append(ret, sink)
       /\ \A i \in DOMAIN ret : ret[i].op # "SINK"

\* a call has returned a sequence that ends with close instructions
C11_Witness ==
  /\ Returned /\ uops = Append(ret, sink)
  /\ ret # <<>> /\ IsEnd(ret[Len(ret)])


-----------------------------------------------------------------------------
(* The call-count protocol of TinyJit *)

\* what a replay of the executor e on the arguments a launches: the kernels
\* of e.jit_cache in order, each input slot holding the buffer a passes
\* under the slot's input name
replayed(e, a) ==
  [j \in DOMAIN e.jit_cache |->
     JitItem(e.jit_cache[j].prg,
             [i \in DOMAIN e.jit_cache[j].rawbufs |->
                IF <<j, i>> \in DOMAIN e.input_replace
                THEN input_rawbuffers(a)[e.input_replace[<<j, i>>]]
                ELSE e.jit_cache[j].rawbufs[i]])]

\* C12: on a supported device every call that returns adds exactly 1 to cnt;
\* the call made at cnt = 0 runs the wrapped function and captures nothing;
\* the call made at cnt = 1 runs the wrapped function and leaves a batch
\* executor built from the kernels that run captured; every call made at
\* cnt >= 2 does not invoke the wrapped function and launches exactly the
\* captured kernels with the buffers of this call in the recorded input slots.
C12_CallCountProtocol ==
  [][(device \in JIT_SUPPORTED_DEVICE /\ returned' = returned + 1) =>
       /\ cnt' = cnt + 1
       /\ cnt = 0 =>
            /\ launched' = run_fxn(fxn, args')
            /\ jit_fxn' = None /\ expected_vals' = NoTuple
            /\ expected_sts_dtype' = NoTuple
       /\ cnt = 1 =>
            /\ SubSeq(launched', 1, 1 + Len(fxn)) = run_fxn(fxn, args')
            /\ jit_fxn' # None
            /\ jit_fxn'.jit_cache # <<>>
            /\ \A j \in DOMAIN jit_fxn'.jit_cache :
                 \E k \in DOMAIN fxn : jit_fxn'.jit_cache[j].prg = fxn[k].prg
       /\ cnt >= 2 =>
            /\ \A j \in DOMAIN launched' : launched'[j] # FxnCall
            /\ launched' = replayed(jit_fxn', args')
            /\ \A j \in DOMAIN launched' :
                 \A i \in DOMAIN launched'[j].rawbufs :
                   launched'[j].rawbufs[i] # "None"
    ]_vars

\* the third call returned, having replayed on buffers that are not the
\* ones of the captured call
C12_Witness ==
  /\ device \in JIT_SUPPORTED_DEVICE
  /\ jpc = "idle" /\ jerr = "" /\ returned = 3 /\ cnt = 3
  /\ self_ret # Result(args)
  /\ Len(launched) = 2
  /\ launched = replayed(jit_fxn, args)

-----------------------------------------------------------------------------
(* The scope-not-open assert of the scheduler *)

\* the messages of the assert at the comparison of an emitted block with a
\* successor block
NotOpenedErrors ==
  {"loop 0 wasn't opened", "loop 1 wasn't opened", "loop None wasn't opened"}

\* C13: for every SINK-rooted input graph the scheduler never finds a scope
\* of an emitted block's scope set missing from the open-scopes stack, so
\* the scope-not-open error is never raised, also when two different blocks
\* have the same scope in their scope sets.
C13_ScopeNeverMissing ==
  sink.op = "SINK" => ~(pc = "err" /\ err \in NotOpenedErrors)

\* the scope-not-open error was raised on a well-formed SINK-rooted graph
\* in which two different blocks have a scope in common
C13_RaisedWithCommonScope ==
  /\ sink.op = "SINK" /\ WellFormed(sink)
  /\ pc = "err" /\ err \in NotOpenedErrors
  /\ \E b1, b2 \in Blocks(sink_bb) :
       /\ b1 # b2
       /\ \E k \in DOMAIN b1.rngs : InSeq(b1.rngs[k], b2.rngs)

-----------------------------------------------------------------------------
(* Blocks and the scope sets of their members *)

\* C14: in every graph block building produces, and in the graph it ends
\* with, every member of every block's member list other than the SINK has
\* a scope set (get_ranges_in_parents) equal to the block's scope set.
C14_MembersHaveBlockScopes ==
  pc \in {"rewrite", "schedule", "place", "done", "err"} =>
    \A b \in Blocks(sink_bb) :
      \A k \in DOMAIN b.lst :
        b.lst[k].op # "SINK" => rngs_of(b.lst[k]) = b.rngs

\* the next rewrite of x merges its BLOCK operand x.src[i] with its operand
\* x.src[j], a node that can be moved and has the scope set of that block
MergePending(x) ==
  \E i, j \in DOMAIN x.src :
    /\ x.src[i].op = "BLOCK"
    /\ x.src[j].op \notin DONT_PLACE_IN_BLOCK \cup {"BLOCK"}
    /\ ~has_outside_children(children, forks, x, x.src[j])
    /\ rngs_of(x.src[j]) = x.src[i].rngs
    /\ x.src[i].rngs # x.rngs

\* block building is under way on a graph that holds a block with a scope
\* and several members, and a block about to be merged with a node of the
\* same scope set
C14_Witness ==
  /\ pc = "rewrite"
  /\ \E b \in Blocks(sink_bb) : Len(b.rngs) >= 1 /\ Len(b.lst) >= 2
  /\ \E x \in Blocks(sink_bb) : MergePending(x)

-----------------------------------------------------------------------------
(* Which inputs a rewrite of a block may move *)

\* u is in the current fork set, or every consumer of u in the input graph
\* is a member of x
MayMove(x, u) ==
  u \in forks \/ \A i \in DOMAIN children[u] : InSeq(children[u][i], x.lst)

\* u, an input of x, is still an input of the rewritten block y and the
\* rewrite has put it neither into y's member list nor into a nested block
StaysInput(x, y, u) ==
  /\ InSeq(u, y.src)
  /\ InSeq(u, y.lst) => InSeq(u, x.lst)
  /\ \A k \in DOMAIN y.src :
       (y.src[k].op = "BLOCK" /\ InSeq(u, y.src[k].lst)) =>
         \E j \in DOMAIN x.src : x.src[j].op = "BLOCK" /\ InSeq(u, x.src[j].lst)

\* r is what append_to_block returns for x
MovesOnlyMovable(x, r) ==
  (r.ok /\ r.updated) =>
    \A i \in DOMAIN x.src :
      (x.src[i].op \notin DONT_PLACE_IN_BLOCK \cup {"BLOCK"} /\ ~MayMove(x, x.src[i])) =>
        StaysInput(x, r.node, x.src[i])

\* C15: whenever append_to_block rewrites a block x of the graph being
\* built, an input of x that is neither a leaf kind nor a block, is not in
\* the fork set and has a consumer outside x's member list stays an input of
\* x and is neither absorbed nor routed to a nested block; only inputs in the
\* fork set or with all consumers in x are moved.
C15_OnlyForksOrInsideConsumersMove ==
  pc = "rewrite" =>
    \A x \in Blocks(sink_bb) :
      MovesOnlyMovable(x, append_to_block(children, forks, x, memo))

\* a node with a consumer outside the block b is a member of b and in the
\* fork set: it stayed an input for the whole of the round before (only
\* inputs left over by a round become forks) and was absorbed in this one
C15_Witness ==
  /\ pc = "rewrite"
  /\ \E b \in Blocks(sink_bb) : \E u \in forks :
       /\ InSeq(u, b.lst)
       /\ \E i \in DOMAIN children[u] : ~InSeq(children[u][i], b.lst)

-----------------------------------------------------------------------------
(* Leaf kinds stay inputs *)

LeafKinds == {"RANGE", "CONST", "DEFINE_ACC", "DEFINE_GLOBAL", "DEFINE_VAR", "SPECIAL"}

\* C16: in every graph reachable during block building and in the graph it
\* ends with, no member list of a block holds a RANGE, CONST, DEFINE_ACC,
\* DEFINE_GLOBAL, DEFINE_VAR or SPECIAL node, and no such node is in the
\* fork set.
C16_NoLeafKindInBlock ==
  /\ \A b \in Blocks(sink_bb) :
       \A k \in DOMAIN b.lst : b.lst[k].op \notin LeafKinds
  /\ \A u \in forks : u.op \notin LeafKinds

\* block building has ended; a RANGE and a DEFINE_ACC are inputs of blocks
\* whose member lists hold every consumer they have
C16_Witness ==
  /\ pc = "schedule"
  /\ \E x \in Blocks(sink_bb) : \E i \in DOMAIN x.src :
       /\ x.src[i].op = "RANGE"
       /\ \A j \in DOMAIN children[x.src[i]] : InSeq(children[x.src[i]][j], x.lst)
  /\ \E x \in Blocks(sink_bb) : \E i \in DOMAIN x.src :
       /\ x.src[i].op = "DEFINE_ACC"
       /\ \A j \in DOMAIN children[x.src[i]] : InSeq(children[x.src[i]][j], x.lst)

-----------------------------------------------------------------------------
(* What an operand contributes to the scope set of its consumer *)

\* what the loop of get_ranges_in_parents appends to `ret` for the operand u
contributed(u) == grip_loop(UOp("ALU", 0, <<u>>), 1, <<>>, EmptyDict).ret

\* the scope set of x when its operand i contributes c instead
scopes_with(x, i, c) ==
  dedup(sorted(flatten([j \in DOMAIN x.src |->
                          IF j = i THEN c ELSE contributed(x.src[j])])))

\* the nodes get_ranges_in_parents has been called on so far
Resolved == DOMAIN memo

\* the cache is written while blocks are built and at no other time, so a
\* property of every cached tuple is a property of the states of that phase
Building == pc = "rewrite"

\* C17 as stated: a RANGE or IF operand contributes only itself; the scope
\* set of its consumer is what the other operands contribute, plus the
\* operand.
C17_ScopeOperandOnlyItself ==
  Building =>
    \A x \in Resolved : \A i \in DOMAIN x.src :
      x.src[i].op \in {"RANGE", "IF"} =>
        /\ contributed(x.src[i]) = <<x.src[i]>>
        /\ memo[x] = scopes_with(x, i, <<x.src[i]>>)

\* C17 as the code has it: a RANGE or IF operand contributes itself and
\* also its own scope set (the scopes of the RANGE's bounds or of the IF's
\* condition), and all of these are in the consumer's scope set.
C17_ScopeOperandAndItsScopes ==
  Building =>
    \A x \in Resolved : \A i \in DOMAIN x.src :
      x.src[i].op \in {"RANGE", "IF"} =>
        /\ contributed(x.src[i]) = <<x.src[i]>> \o rngs_of(x.src[i])
        /\ InSeq(x.src[i], memo[x])
        /\ \A k \in DOMAIN rngs_of(x.src[i]) : InSeq(rngs_of(x.src[i])[k], memo[x])

\* the scope set of a node has been computed that holds a RANGE only
\* because the condition of its IF operand is inside that RANGE
C17_Witness ==
  \E x \in Resolved : \E i \in DOMAIN x.src :
    /\ x.src[i].op = "IF"
    /\ \E k \in DOMAIN rngs_of(x.src[i]) :
         /\ rngs_of(x.src[i])[k].op = "RANGE"
         /\ InSeq(rngs_of(x.src[i])[k], memo[x])
         /\ ~InSeq(rngs_of(x.src[i])[k], scopes_with(x, i, <<x.src[i]>>))

\* x without its STORE operands
without_stores(x) == [x EXCEPT !.src = SelectSeq(x.src, LAMBDA u : u.op # "STORE")]

\* C18: a STORE operand contributes no scope: the scope set computed for a
\* node equals the scope set of the node with its STORE operands removed,
\* whatever the scope set of the STORE is.
C18_StoreContributesNothing ==
  Building =>
    \A x \in Resolved :
      /\ memo[x] = rngs_of(without_stores(x))
      /\ \A i \in DOMAIN x.src : x.src[i].op = "STORE" => contributed(x.src[i]) = <<>>

\* the scope set of a node has been computed that has a STORE operand, and
\* the STORE is under a scope that the node is not under
C18_Witness ==
  \E x \in Resolved : \E i \in DOMAIN x.src :
    /\ x.src[i].op = "STORE"
    /\ \E k \in DOMAIN rngs_of(x.src[i]) : ~InSeq(rngs_of(x.src[i])[k], memo[x])

\* the operands of the DEFINE_ACC of the ASSIGN u after the first
ranges_of_acc(u) == SubSeq(u.src[1].src, 2, Len(u.src[1].src))

\* the scope set of the value operand of the ASSIGN u without the ranges of
\* its accumulator
value_scopes(u) ==
  SelectSeq(rngs_of(u.src[2]), LAMBDA y : ~InSeq(y, ranges_of_acc(u)))

\* C19: an ASSIGN operand u of x contributes to x exactly the scope set of
\* u's value operand minus the operands of u's DEFINE_ACC after the first:
\* no range of the accumulator is contributed, and the scope set of x is
\* what the other operands contribute plus that.
C19_AssignContributesValueScopes ==
  Building =>
    \A x \in Resolved : \A i \in DOMAIN x.src :
      x.src[i].op = "ASSIGN" =>
        /\ contributed(x.src[i]) = value_scopes(x.src[i])
        /\ \A k \in DOMAIN contributed(x.src[i]) :
             ~InSeq(contributed(x.src[i])[k], ranges_of_acc(x.src[i]))
        /\ memo[x] = scopes_with(x, i, value_scopes(x.src[i]))

\* the scope set of a consumer of an ASSIGN has been computed; the value
\* assigned is under a range of the accumulator, which the consumer is not
\* under, and under another range, which the consumer is under
C19_Witness ==
  \E x \in Resolved : \E i \in DOMAIN x.src :
    /\ x.src[i].op = "ASSIGN"
    /\ \E k \in DOMAIN rngs_of(x.src[i].src[2]) :
         /\ InSeq(rngs_of(x.src[i].src[2])[k], ranges_of_acc(x.src[i]))
         /\ ~InSeq(rngs_of(x.src[i].src[2])[k], memo[x])
    /\ \E k \in DOMAIN rngs_of(x.src[i].src[2]) :
         /\ ~InSeq(rngs_of(x.src[i].src[2])[k], ranges_of_acc(x.src[i]))
         /\ InSeq(rngs_of(x.src[i].src[2])[k], memo[x])
         /\ ~InSeq(rngs_of(x.src[i].src[2])[k], scopes_with(x, i, <<>>))

-----------------------------------------------------------------------------
(* The order of a scope set *)

\* what the operands of x contribute, in the order of the operands
found(x) == flatten([j \in DOMAIN x.src |-> contributed(x.src[j])])

elements(s) == {s[i] : i \in DOMAIN s}

\* C20: every tuple get_ranges_in_parents has returned holds no scope twice
\* and is in the order of the scopes' structural tuples, so two nodes with
\* the same set of scopes have equal tuples, whatever the order of their
\* operands or the paths the scopes were reached through.
C20_ScopeSetCanonical ==
  Building =>
    /\ \A x \in Resolved :
         /\ \A i, j \in DOMAIN memo[x] :
              i < j => memo[x][i] # memo[x][j] /\ tuplize_lt(memo[x][i], memo[x][j])
         /\ elements(memo[x]) = elements(found(x))
    /\ \A x, y \in Resolved :
         elements(memo[x]) = elements(memo[y]) => memo[x] = memo[y]

\* two nodes have the same scope set of two scopes or more; their operands
\* contribute the scopes in different orders, and one of them is contributed
\* a scope twice
C20_Witness ==
  \E x, y \in Resolved :
    /\ x # y /\ memo[x] = memo[y] /\ Len(memo[x]) >= 2
    /\ dedup(found(x)) # dedup(found(y))
    /\ Len(found(y)) > Len(memo[y])

-----------------------------------------------------------------------------
(* The cache of get_ranges_in_parents *)

\* g is what get_ranges_in_parents returns for x on the cache as it is now
SameAsUncached(x, g) ==
  g.ok => g.ret = rngs_of(x) /\ get_ranges_in_parents(x, g.memo).ret = g.ret

-----------------------------------------------------------------------------
(* The fork set across the rounds of block_uop *)

\* a round of block_uop ends in this step: graph_rewrite has returned and
\* the fork set is assigned
RoundEnds == pc = "rewrite" /\ pc' \in {"rewrite", "schedule"} /\ sink_bb' = sink_bb

\* C22 as stated: across the rounds the fork set only grows, and the loop
\* ends when a round finds no fork that was not in the set already.
C22_ForksGrow ==
  [][RoundEnds => /\ forks \subseteq forks'
                  /\ pc' = "schedule" <=> forks' = forks]_vars

\* C22 as the code has it: every round replaces the fork set by the inputs
\* of blocks that are neither a BLOCK nor a leaf kind at the end of that
\* round; no fork of one round is a fork of the next; the loop ends when a
\* round leaves the fork set empty.
C22_ForksReplaced ==
  [][RoundEnds => /\ forks' = find_forks(sink_bb)
                  /\ forks' \cap forks = {}
                  /\ pc' = "schedule" <=> forks' = {}]_vars

\* a round has ended with forks, after a round whose fork is by now a member
\* of two blocks and is not in the fork set any more
C22_Witness ==
  /\ pc = "rewrite" /\ forks # {}
  /\ \E u \in SharedOps(sink_bb) : u \notin forks

-----------------------------------------------------------------------------
(* Nested blocks of one scope set are merged *)

\* the scope set an input u of a block is filed under
key_of(u) == IF u.op = "BLOCK" THEN u.rngs ELSE rngs_of(u)

\* the inputs of x that a rewrite of x files under the key k: the nested
\* blocks with scope set k and the movable operations with scope set k,
\* when k is not the scope set of x itself
Routed(x, k) ==
  SelectSeq(x.src, LAMBDA u :
    \/ u.op = "BLOCK" /\ u.rngs = k
    \/ /\ u.op \notin DONT_PLACE_IN_BLOCK \cup {"BLOCK"}
       /\ ~has_outside_children(children, forks, x, u)
       /\ k # x.rngs /\ rngs_of(u) = k)

members_of(u) == IF u.op = "BLOCK" THEN u.lst ELSE <<u>>

\* y has no two BLOCK inputs with the same scope set
OneBlockPerKey(y) ==
  \A i, j \in DOMAIN y.src :
    (y.src[i].op = "BLOCK" /\ y.src[j].op = "BLOCK" /\ y.src[i].rngs = y.src[j].rngs)
      => i = j

\* what was filed under k is in y as one BLOCK input: its members are the
\* members of everything filed, its inputs the inputs of everything filed
MergedUnder(y, k, R) ==
  R # <<>> =>
    \E j \in DOMAIN y.src :
      /\ y.src[j].op = "BLOCK" /\ y.src[j].rngs = k
      /\ y.src[j].lst = flatten([i \in DOMAIN R |-> members_of(R[i])])
      /\ elements(y.src[j].src) = UNION {elements(R[i].src) : i \in DOMAIN R}

\* r is what append_to_block returns for x
MergesByKey(x, r) ==
  r.ok =>
    /\ OneBlockPerKey(r.node)
    /\ r.updated =>
         \A i \in DOMAIN x.src :
           MergedUnder(r.node, key_of(x.src[i]), Routed(x, key_of(x.src[i])))

\* C24: whenever append_to_block leaves a block unchanged the block has no
\* two BLOCK inputs with the same scope set, and whenever it rewrites a
\* block, everything filed under one scope key (a nested block already
\* there and the operations routed to that key) becomes one BLOCK input of
\* that key, with the members of all of them and the union of their inputs;
\* so no block of the graph block building ends with has two BLOCK inputs
\* with the same scope set.
C24_OneNestedBlockPerScopeSet ==
  /\ pc = "rewrite" =>
       \A x \in Blocks(sink_bb) :
         MergesByKey(x, append_to_block(children, forks, x, memo))
  /\ pc \in {"schedule", "place", "done"} =>
       \A x \in Blocks(sink_bb) : OneBlockPerKey(x)

\* a block whose inputs change no more has a nested block input and, as
\* another input, a movable operation of that block's scope set: the next
\* rewrite of the block merges the two
C24_Witness ==
  /\ pc = "rewrite"
  /\ \E x \in Blocks(sink_bb) :
       /\ Unchanged(rewrite_srcs(children, forks, x, 1, memo))
       /\ \E i, j \in DOMAIN x.src :
            /\ x.src[i].op = "BLOCK" /\ x.src[j].op # "BLOCK"
            /\ InSeq(x.src[j], Routed(x, x.src[i].rngs))

-----------------------------------------------------------------------------
(* CONST nodes leave the queue first *)

\* C25: at every pop of the scheduler's queue, if the queue holds a CONST
\* then the node popped is a CONST: no node that is not a CONST leaves the
\* queue while a CONST is waiting in it.
C25_ConstPoppedFirst ==
  (pc = "place" /\ queue # <<>>) =>
    ((\E i \in DOMAIN queue : queue[i].op = "CONST") =>
       heappop(queue).item.op = "CONST")

\* the queue holds a CONST together with a node that is not a CONST and
\* has the smaller structural tuple, and a CONST has been emitted already
C25_Witness ==
  /\ pc = "place"
  /\ uops # <<>> /\ uops[Len(uops)].op = "CONST"
  /\ \E i, j \in DOMAIN queue :
       /\ queue[i].op = "CONST" /\ queue[j].op # "CONST"
       /\ tuplize_lt(queue[j], queue[i])

-----------------------------------------------------------------------------
(* States the error checks of the specification would be made in *)

\* block_uop never returns a graph in which a block has an input that is
\* neither a BLOCK nor a leaf kind, and block building fails only on the
\* assert of get_ranges_in_parents (C23 is about a round that leaves such an
\* input and finds no fork: no such round exists)
NoInputLeftUnresolved ==
  /\ pc \in {"schedule", "place", "done"} => find_forks(sink_bb) = {}
  /\ (pc = "err" /\ uops = <<>> /\ sink.op = "SINK") => err = "assign of no DEFINE_ACC"

\* whenever the scheduler's loop ends, no scope is on open_loops (C26 is
\* about a loop that ends with a scope still open: no such run exists)
NoScopeOpenAtLoopEnd ==
  (pc \in {"place", "done"} /\ queue = <<>>) => open_loops = <<>>

-----------------------------------------------------------------------------
(* The order on BasicBlock values *)

\* s is before t in the order of the structural tuples: s is a proper
\* prefix of t, or at the first position where they differ the scope of s
\* has the smaller tuple
rngs_before(s, t) ==
  \E k \in 1..(Len(t)) :
    /\ \A j \in 1..(k - 1) : j <= Len(s) /\ s[j] = t[j]
    /\ \/ k = Len(s) + 1
       \/ k <= Len(s) /\ s[k] # t[k] /\ tuplize_lt(s[k], t[k])

\* C27 as stated: the order on blocks is irreflexive and transitive, and of
\* two blocks that are not equal exactly one is less than the other.
C27_StrictTotalOrder ==
  Building =>
    \A a, b \in Blocks(sink_bb) :
      /\ ~BasicBlock_lt(a, a)
      /\ ~BasicBlock_eq(a, b) => (BasicBlock_lt(a, b) <=> ~BasicBlock_lt(b, a))
      /\ \A c \in Blocks(sink_bb) :
           (BasicBlock_lt(a, b) /\ BasicBlock_lt(b, c)) => BasicBlock_lt(a, c)

\* C27 as the code has it: the order is irreflexive and transitive; of two
\* blocks with different scope sets exactly one is less than the other, the
\* one whose scope set is first in the order of the structural tuples; two
\* blocks with the same scope set are not ordered, whatever their members.
C27_OrderedByScopeSetOnly ==
  Building =>
    \A a, b \in Blocks(sink_bb) :
      /\ ~BasicBlock_lt(a, a)
      /\ a.rngs # b.rngs =>
           /\ BasicBlock_lt(a, b) <=> ~BasicBlock_lt(b, a)
           /\ BasicBlock_lt(a, b) <=> rngs_before(a.rngs, b.rngs)
      /\ a.rngs = b.rngs => ~BasicBlock_lt(a, b) /\ ~BasicBlock_lt(b, a)
      /\ BasicBlock_lt(a, b) =>
           \A c \in Blocks(sink_bb) : BasicBlock_lt(b, c) => BasicBlock_lt(a, c)

\* the graph being built has two blocks with the same scope set and
\* different members, and two blocks with different scope sets of the same
\* length
C27_Witness ==
  /\ pc = "rewrite"
  /\ \E a, b \in Blocks(sink_bb) : a.rngs = b.rngs /\ a.lst # b.lst
  /\ \E a, c \in Blocks(sink_bb) :
       a.rngs # c.rngs /\ Len(a.rngs) = Len(c.rngs) /\ BasicBlock_lt(a, c)

-----------------------------------------------------------------------------
(* BasicBlock.add *)

\* the inputs of x that a rewrite of x absorbs, in the order of the inputs:
\* the movable operations whose scope set is the scope set of x
Absorbed(x) ==
  SelectSeq(x.src, LAMBDA u :
    /\ u.op \notin DONT_PLACE_IN_BLOCK \cup {"BLOCK"}
    /\ ~has_outside_children(children, forks, x, u)
    /\ rngs_of(u) = x.rngs)

\* y is what x.add(xs) returns
AddPrepends(x, xs, y) ==
  /\ y.rngs = x.rngs
  /\ xs = <<>> => y.lst = x.lst
  /\ xs # <<>> => y.lst = xs \o x.lst

\* r is what append_to_block returns for x
AddedTo(x, r) ==
  (r.ok /\ r.updated) =>
    /\ AddPrepends(x, Absorbed(x), r.node)
    /\ r.node.lst = BasicBlock_add(x, Absorbed(x)).lst

\* C28: add never changes the scope set; add of an empty list gives a block
\* with the members the block had, add of a non-empty list xs gives a block
\* with the same scope set whose members are xs followed by the members
\* the block had; this is so for the add of every rewrite of every block,
\* where xs are the operations the rewrite absorbs.
C28_AddPrependsKeepsScopes ==
  Building =>
    \A x \in Blocks(sink_bb) :
      /\ AddPrepends(x, Absorbed(x), BasicBlock_add(x, Absorbed(x)))
      /\ AddPrepends(x, <<>>, BasicBlock_add(x, <<>>))
      /\ AddedTo(x, append_to_block(children, forks, x, memo))

\* a block inside a scope, with members, is about to absorb an operation,
\* and another block is about to be rewritten without absorbing anything
C28_Witness ==
  /\ pc = "rewrite"
  /\ \E x \in Blocks(sink_bb) :
       Len(x.rngs) >= 1 /\ Len(x.lst) >= 1 /\ Absorbed(x) # <<>>
  /\ \E y \in Blocks(sink_bb) :
       Absorbed(y) = <<>> /\ append_to_block(children, forks, y, memo).updated

-----------------------------------------------------------------------------
(* What a call leaves behind for the next call *)

\* a call starts in this step
CallStarts == calls' = calls + 1

\* C29 as stated: the cache of get_ranges_in_parents, the children map and
\* the fork set are private to one call: a later call starts with none of
\* the entries an earlier call wrote.
C29_NothingOutlivesACall ==
  (calls >= 2 /\ pc = "start") =>
    memo = EmptyDict /\ children = EmptyDict /\ forks = {}

\* C29 as the code has it: the children map and the fork set are private
\* to one call (a later call starts with both empty), while the cache of
\* get_ranges_in_parents is shared by all calls: a later call starts with
\* every entry the earlier calls wrote, and on the same graph it answers
\* every query from these entries and writes none.
C29_OnlyCacheOutlivesACall ==
  [][/\ CallStarts => memo' = memo /\ children' = EmptyDict /\ forks' = {}
     /\ (calls >= 2 /\ ~CallStarts) => memo' = memo]_vars

\* a second call starts after a call that returned a sequence with a forked
\* operation in it: the cache holds scope sets, the children map and the
\* fork set are empty
C29_Witness ==
  /\ calls = 2 /\ pc = "start"
  /\ first.pc = "done"
  /\ \E i, j \in DOMAIN first.ret : i # j /\ first.ret[i] = first.ret[j]
  /\ \E x \in Resolved : Len(memo[x]) >= 2
  /\ children = EmptyDict /\ forks = {}

-----------------------------------------------------------------------------
(* A DEFINE_ACC with no RANGE operand *)

\* the DEFINE_ACC nodes of the graph n that have no RANGE among their operands
RangelessAccs(n) ==
  {u \in sparents(n) : u.op = "DEFINE_ACC" /\ \A k \in DOMAIN u.src : u.src[k].op # "RANGE"}

MinOfNothing == "min() arg is an empty sequence"

\* the loop is about to pop a DEFINE_ACC that has no RANGE operand
PopsRangelessAcc ==
  pc = "place" /\ queue # <<>> /\ heappop(queue).item \in RangelessAccs(sink)

\* no such DEFINE_ACC is in _uops or in what is returned, no call on a
\* graph that has one returns, and the error of min() is raised for such a
\* graph only and leaves nothing returned
NoRangelessAccPlaced ==
  /\ \A u \in RangelessAccs(sink) : ~InSeq(u, uops) /\ ~InSeq(u, ret)
  /\ (sink.op = "SINK" /\ RangelessAccs(sink) # {}) => pc # "done"
  /\ (pc = "err" /\ err = MinOfNothing) => ret = <<>> /\ RangelessAccs(sink) # {}

\* C30: when the scheduler pops a DEFINE_ACC with no RANGE among its
\* operands the call fails with the error of min() on an empty sequence,
\* with _uops as it was and nothing returned; such a node is never put into
\* _uops, at the current position or anywhere else, and a call on a graph
\* that has one never returns a sequence.
C30_RangelessAccFails ==
  /\ []NoRangelessAccPlaced
  /\ [][PopsRangelessAcc =>
          /\ pc' = "err" /\ err' = MinOfNothing
          /\ uops' = uops /\ ret' = <<>>]_vars

\* the call has failed with the error of min() after it had emitted the
\* nodes that come before the DEFINE_ACC, with other nodes still waiting
C30_Witness ==
  /\ pc = "err" /\ err = MinOfNothing
  /\ uops # <<>> /\ queue # <<>>
  /\ \A u \in RangelessAccs(sink) : ~InSeq(u, uops) /\ ~InSeq(u, queue)

-----------------------------------------------------------------------------
(* The nodes of the returned sequence *)

\* the nodes that occur in the sequence s
nodes_of(s) == {s[i] : i \in DOMAIN s}

\* the close instructions the scheduler can create for the graph n: one
\* ENDRANGE per RANGE and one ENDIF per IF of the graph
closes_of(n) == {end_of(r) : r \in {u \in sparents(n) : IsScope(u)}}

\* C31: the returned sequence holds no BLOCK; its nodes that are not close
\* instructions are exactly the nodes the SINK of the input graph reaches
\* without the SINK itself, and its close instructions are exactly the
\* ENDRANGE and ENDIF nodes of the scopes of the input graph.
C31_SameNodesPlusCloses ==
  Returned =>
    /\ \A i \in DOMAIN ret : ret[i].op # "BLOCK"
    /\ {u \in nodes_of(ret) : ~IsEnd(u)} = sparents(sink) \ {sink}
    /\ {u \in nodes_of(ret) : IsEnd(u)} = closes_of(sink)

\* a call has returned for a graph that was built into several blocks, one
\* operation being a member of two of them, with an ENDRANGE and an ENDIF
\* in what is returned
C31_Witness ==
  /\ Returned
  /\ Cardinality(Blocks(sink_bb)) >= 3
  /\ SharedOps(sink_bb) # {}
  /\ \E i, j \in DOMAIN ret : ret[i].op = "ENDRANGE" /\ ret[j].op = "ENDIF"

-----------------------------------------------------------------------------
(* The input slots of a BatchExecutor *)

\* the slots (j, i) of the buffer lists of the executor e
slots(e) ==
  UNION {{<<j, i>> : i \in DOMAIN e.jit_cache[j].rawbufs} : j \in DOMAIN e.jit_cache}

\* what slot p of the executor e holds
slot(e, p) == e.jit_cache[p[1]].rawbufs[p[2]]

\* no call of the executor is running: it was constructed, or its last
\* call has returned, or the running TinyJit call has not yet entered it
Between == jit_fxn # None /\ jpc \in {"idle", "replay"}

\* a call of the executor is past its first loop
Filled == jit_fxn # None /\ jpc \in {"filled", "ran"}

InputSlotsClearedAndFilled ==
  /\ Between =>
       \A p \in DOMAIN jit_fxn.input_replace : slot(jit_fxn, p) = "None"
  /\ Filled =>
       /\ \A p \in DOMAIN jit_fxn.input_replace :
            slot(jit_fxn, p) = input_rawbuffers(args)[jit_fxn.input_replace[p]]
       /\ jpc = "filled" => launched = <<>>
       /\ jpc = "ran" => launched = jit_fxn.jit_cache
  /\ jit_fxn # None => DOMAIN jit_fxn.input_replace \subseteq slots(jit_fxn)

\* the executor e2 is e1 but for what the input slots hold
OtherSlotsKept(e1, e2) ==
  /\ e2.input_replace = e1.input_replace
  /\ slots(e2) = slots(e1)
  /\ \A j \in DOMAIN e1.jit_cache : e2.jit_cache[j].prg = e1.jit_cache[j].prg
  /\ \A p \in slots(e1) \ DOMAIN e1.input_replace : slot(e2, p) = slot(e1, p)

\* the executor e holds the captured kernels jc but for the input slots
BuiltFrom(e, jc) ==
  /\ slots(e) = slots([jit_cache |-> jc])
  /\ \A j \in DOMAIN jc : e.jit_cache[j].prg = jc[j].prg
  /\ \A p \in slots(e) \ DOMAIN e.input_replace : slot(e, p) = jc[p[1]].rawbufs[p[2]]

\* C32: after the construction of the BatchExecutor and after every call of
\* it, every slot recorded in input_replace holds None; once the first loop
\* of a call is over, and so before any cached kernel is run, every such
\* slot holds the buffer passed under its input name in that call, and the
\* kernels are run with the slots so filled; a slot not in input_replace
\* holds what it held when the kernel was captured and is never modified.
C32_InputSlots ==
  /\ []InputSlotsClearedAndFilled
  /\ [][/\ (jit_fxn # None /\ jit_fxn' # None) => OtherSlotsKept(jit_fxn, jit_fxn')
        /\ (jit_fxn = None /\ jit_fxn' # None) =>
             BuiltFrom(jit_fxn',
                       jit_cache_dependent(kernels_of(fxn, args'),
                         depends_of(kernels_of(fxn, args'), input_rawbuffers(args'))))
     ]_vars

\* the second replay is past its first loop: two input slots hold the
\* buffers of this call, which are not the buffers of the captured call,
\* and a slot that is not an input slot holds a buffer
C32_Witness ==
  /\ jpc = "filled" /\ cnt = 3
  /\ Cardinality(DOMAIN jit_fxn.input_replace) >= 2
  /\ \E p \in slots(jit_fxn) \ DOMAIN jit_fxn.input_replace : p[2] >= 2
  /\ \A p \in DOMAIN jit_fxn.input_replace : slot(jit_fxn, p) # "None"
  /\ self_ret # Result(args)

-----------------------------------------------------------------------------
(* Calls that TinyJit rejects *)

\* a call of TinyJit.__call__ starts with this step
JitCallStarts == jit_calls' = jit_calls + 1

\* the arguments a have no Tensor, or two Tensors on one buffer
BadInputs(a) ==
  \/ \A i \in DOMAIN a.tensors : ~IsTensor(a.tensors[i])
  \/ \E i, k \in DOMAIN a.tensors :
       i # k /\ IsTensor(a.tensors[i]) /\ a.tensors[i].buf = a.tensors[k].buf

\* cnt >= 2 and the variable keys or the shape/dtype tuple of a are not the
\* recorded ones
NotAsCaptured(a) ==
  cnt >= 2 /\ (expected_vals # a.vars \/ expected_sts_dtype # sts_dtype(a))

\* the call that starts with this step fails in it, no kernel was run, and
\* the fields of the TinyJit object are what they were
FailsAndChangesNothing ==
  /\ jpc' = "idle" /\ jerr' # "" /\ returned' = returned
  /\ launched' = <<>>
  /\ UNCHANGED <<cnt, jit_fxn, self_ret, expected_vals, expected_sts_dtype>>

\* C33 as stated: every call with bad inputs, and every call at cnt >= 2
\* that is not as the captured one, fails before a kernel is run and leaves
\* cnt, jit_fxn, ret and the expected values as they were.
C33_RejectedOnAnyDevice ==
  [][(JitCallStarts /\ (BadInputs(args') \/ NotAsCaptured(args'))) =>
       FailsAndChangesNothing]_vars

\* C33 as the code has it: on a supported device every call with bad inputs,
\* and every call at cnt >= 2 that is not as the captured one, fails with
\* the message of the failed check before a kernel is run and leaves cnt,
\* jit_fxn, ret and the expected values as they were; on any other device
\* the call is the wrapped function's and none of the checks is made.
C33_RejectedOnSupportedDevice ==
  [][JitCallStarts =>
       /\ (device \in JIT_SUPPORTED_DEVICE
              /\ (BadInputs(args') \/ NotAsCaptured(args'))) =>
            /\ FailsAndChangesNothing
            /\ jerr' \in {"no inputs to JIT", "duplicate inputs to JIT",
                          "mismatch of var_vals", "mismatch of sts"}
            /\ jerr' \in {"no inputs to JIT", "duplicate inputs to JIT"}
                 <=> BadInputs(args')
       /\ device \notin JIT_SUPPORTED_DEVICE =>
            /\ jerr' = "" /\ launched' = run_fxn(fxn, args')
            /\ UNCHANGED <<cnt, jit_fxn, self_ret, expected_vals, expected_sts_dtype>>
    ]_vars

\* after a replay has returned, a call with inputs of another shape was
\* rejected: the executor and the count are still there
C33_Witness ==
  /\ device \in JIT_SUPPORTED_DEVICE
  /\ jpc = "idle" /\ jerr = "mismatch of sts" /\ launched = <<>>
  /\ cnt = 3 /\ jit_fxn # None
  /\ expected_sts_dtype # sts_dtype(args)
  /\ ~BadInputs(args)

-----------------------------------------------------------------------------
(* The kernels kept at capture *)

\* kernel j of the captured kernels jc reads an input buffer, or the output
\* of an earlier kernel that itself is reached from the inputs
RECURSIVE ReachedFromInputs(_, _, _)
ReachedFromInputs(jc, irb, j) ==
  \E i \in 2..Len(jc[j].rawbufs) :
    \/ jc[j].rawbufs[i] \in values(irb)
    \/ \E k \in 1..(j - 1) :
         jc[k].rawbufs[1] = jc[j].rawbufs[i] /\ ReachedFromInputs(jc, irb, k)

\* the buffers that are an input or the output of a kernel reached from
\* the inputs
DependentBuffers(jc, irb) ==
  values(irb) \cup {jc[j].rawbufs[1] : j \in {j \in DOMAIN jc : ReachedFromInputs(jc, irb, j)}}

\* the captured kernels whose output buffer is dependent, and the others
KeptAtCapture(jc, irb) ==
  SelectSeq(jc, LAMBDA ji : ji.rawbufs[1] \in DependentBuffers(jc, irb))
NotKeptAtCapture(jc, irb) ==
  SelectSeq(jc, LAMBDA ji : ji.rawbufs[1] \notin DependentBuffers(jc, irb))

\* the programs of a sequence of kernels
prgs(jc) == [j \in DOMAIN jc |-> jc[j].prg]

\* the capture call returns with this step
CaptureReturns == cnt = 1 /\ cnt' = 2

\* the executor holds the kernels kept of jc, and after the run of the
\* wrapped function the call has run each of the others once, in order
KeepsDependentRunsOthersOnce(jc, irb) ==
  /\ prgs(jit_fxn'.jit_cache) = prgs(KeptAtCapture(jc, irb))
  /\ launched' = run_fxn(fxn, args') \o NotKeptAtCapture(jc, irb)
  /\ \A j \in DOMAIN jc :
       Cardinality({m \in (Len(fxn) + 2)..Len(launched') : launched'[m].prg = jc[j].prg})
         = IF jc[j].rawbufs[1] \in DependentBuffers(jc, irb) THEN 0 ELSE 1

\* the kernels run by a replay are the kernels of the executor: none of
\* the wrapped function's other kernels is among them
ReplayRunsKeptOnly ==
  (cnt >= 2 /\ launched' # launched /\ launched' # <<>>) =>
     /\ jpc = "filled" /\ jpc' = "ran"
     /\ prgs(launched') = prgs(jit_fxn.jit_cache)
     /\ jit_fxn' = jit_fxn

=============================================================================
